---- MODULE Spec2Model ----
(***************************************************************************)
(* Model of the natural-language-to-SQL query pipeline:                    *)
(*   - SQLFirewall (security/sql_firewall.py), on an abstraction of the    *)
(*     sqlglot AST that keeps exactly what the firewall inspects;          *)
(*   - QueryLimiter (security/query_limiter.py);                           *)
(*   - QueryStateMachine.run (core/state_machine.py), one action per       *)
(*     segment of code between two suspension points (yield / await);      *)
(*   - QueryResult.to_echarts_data (db/executor.py) and                    *)
(*     QueryStateMachine._fill_echarts_data, on options and results that   *)
(*     keep the keys and cells these functions read and write;             *)
(*   - the /api/query route (api/routes/query.py);                         *)
(*   - LLMEngine._parse_response (core/llm_engine.py), on bodies that are  *)
(*     sequences of the tokens the three extractions tell apart.           *)
(***************************************************************************)
EXTENDS Integers, Sequences, FiniteSets, TLC

VARIABLES
    fw_sql,               \* SQLFirewall.validate: the sql argument
    fw_result,            \* SQLFirewall.validate: what the call produced
    clock,                \* the reading time.time() gives now
    max_rpm,              \* QueryLimiter.max_rpm, per limiter object
    _request_timestamps,  \* QueryLimiter._request_timestamps, per limiter object
    calls,                \* history: the check_rate_limit calls made so far
    pc,                   \* per run: where the generator run() is suspended
    events,               \* per run: the events run() has yielded
    client_id,            \* per run: argument client_id
    llm_parsed,           \* per run: what _parse_response gave generate_stream
    full_thinking,        \* per run: local full_thinking
    sql,                  \* per run: local sql
    viz_config,           \* per run: local viz_config
    chart_type,           \* per run: local chart_type
    attempt,              \* per run: local attempt of the validation loop
    safe_sql,             \* per run: local safe_sql
    exec,                 \* per run: the coroutine executor.execute(...)
    deadline,             \* per run: the timer of asyncio.wait_for
    called,               \* per run: history, the collaborators run() called
    executed,             \* per run: history, the sql arguments executor.execute got
    validated,            \* per run: history, the sql arguments firewall.validate got
    driver_result,        \* SQLExecutor.execute: what session.execute gives
    execute_out,          \* SQLExecutor.execute: what the call produced
    fill_option,          \* _fill_echarts_data: the option argument
    fill_result,          \* _fill_echarts_data: the result argument
    fill_out,             \* _fill_echarts_data: what the call produced
    body,                 \* LLMEngine._parse_response: the content argument
    parse_out,            \* LLMEngine._parse_response: what the call produced
    llm_stream,           \* per run: the chunks the LLM response has still to deliver
    pulled,               \* per run: history, the chunks generate_stream pulled
    full_content,         \* per run: local full_content of generate_stream
    chroma,               \* the vector store: id and document count of the collection schema_embeddings
    collection,           \* per run: SchemaEmbedder.collection of the run's retriever, a collection id
    schema_context,       \* per run: what retrieve_as_context produced
    refresh,              \* schema_refresh: where the handler is suspended
    refreshed,            \* history: the statuses schema_refresh returned
    max_retries           \* max_retries of each QueryStateMachine (settings.SQL_MAX_RETRIES)

fwvars  == <<fw_sql, fw_result>>
limvars == <<clock, max_rpm, _request_timestamps, calls>>
runvars == <<pc, events, client_id, llm_parsed, full_thinking, sql, viz_config,
             chart_type, attempt, safe_sql, exec, deadline, called, executed,
             validated>>
fillvars == <<fill_option, fill_result, fill_out>>
exevars  == <<driver_result, execute_out>>
parsevars == <<body, parse_out>>
strvars == <<llm_stream, pulled, full_content>>
idxvars == <<chroma, collection, schema_context, refresh, refreshed>>
cfgvars == <<max_retries>>
vars    == <<fwvars, limvars, runvars, fillvars, exevars, parsevars, strvars, idxvars, cfgvars>>

----------------------------------------------------------------------------
(* Bounds of the model                                                     *)

MaxNested == 2     \* nested queries (subqueries / CTEs) in one statement
MaxStmts  == 2     \* segments of a semicolon-separated list
MaxRuns   == 2     \* runs of the pipeline
MaxChunks == 1     \* non-empty chunks one LLM stream delivers
MaxRpm    == 2     \* largest max_requests_per_minute a limiter is built with
MaxCalls  == 4     \* direct calls of check_rate_limit
MaxClock  == 120   \* last clock reading
MaxCols     == 3   \* columns of a query result
MaxFillRows == 2   \* rows of a query result
MaxSeries   == 2   \* entries of option["series"]
MaxBody     == 5   \* tokens of an LLM response body
MaxStream   == 2   \* chunks of one LLM response, empty ones included
MaxRefresh  == 2   \* calls of POST /api/schema/refresh
MaxRetries  == 2   \* greatest max_retries of the machines of SpecRetries

----------------------------------------------------------------------------
(* Program constants                                                       *)

SQL_MAX_ROWS    == 1000
SQL_MAX_RETRIES == 3
ROUTE_MAX_RPM   == 30
WINDOW          == 60

----------------------------------------------------------------------------
(* The SQL text and its AST, as far as the firewall looks at them.         *)
(*                                                                         *)
(* A LIMIT clause is absent ("none"), an integer literal ("lit") or any    *)
(* other expression ("expr": LIMIT ALL, LIMIT 5 + 5, LIMIT $1, ...).       *)

NoLimit      == [k |-> "none", v |-> 0]
ExprLimit    == [k |-> "expr", v |-> 0]
LitLimit(n)  == [k |-> "lit",  v |-> n]

LimitLits == {50, SQL_MAX_ROWS, SQL_MAX_ROWS + 1}
Limits    == {NoLimit, ExprLimit} \cup {LitLimit(n) : n \in LimitLits}

\* sqlglot expression classes a top-level statement can have.  "Union"
\* stands for the set operations, "Other" for every class that is neither a
\* query nor in BLOCKED_STATEMENT_TYPES (SET, SHOW, USE, ...).
BLOCKED_STATEMENT_TYPES ==
    {"Insert", "Update", "Delete", "Drop", "Create", "Alter", "Command"}

StmtTypes == {"Select", "Union", "Other"} \cup BLOCKED_STATEMENT_TYPES

BLOCKED_FUNCTIONS ==
    {"pg_sleep", "pg_terminate_backend", "pg_cancel_backend",
     "lo_import", "lo_export", "dblink", "dblink_exec", "copy"}

\* str.lower() on the function names the model uses.
Lower(name) ==
    CASE name = "PG_SLEEP" -> "pg_sleep"
      [] name = "COUNT"    -> "count"
      [] OTHER             -> name

\* A function call node: exp.Anonymous (a name sqlglot does not know) or a
\* typed exp.Func subclass (COUNT, ...).
AnonFunc(name)  == [cls |-> "Anonymous", name |-> name]
TypedFunc(name) == [cls |-> "Func",      name |-> name]

FuncSets ==
    {{}, {AnonFunc("pg_sleep")}, {AnonFunc("PG_SLEEP")}, {TypedFunc("COUNT")}}

\* A nested query: the node that wraps it (exp.Subquery for a derived table
\* or an IN/EXISTS/scalar subquery, exp.CTE for a WITH body), the class of
\* its root and the LIMIT of that root.
NestedRoots == {"Select", "Delete"}
NestedNodes ==
    [wrap : {"Subquery", "CTE"}, root : NestedRoots,
     limit : {NoLimit, LitLimit(50), LitLimit(SQL_MAX_ROWS + 1)}]

RECURSIVE SeqsUpTo(_, _)
SeqsUpTo(S, n) ==
    IF n = 0 THEN {<<>>}
    ELSE LET shorter == SeqsUpTo(S, n - 1)
         IN  shorter \cup {Append(s, x) : s \in {t \in shorter : Len(t) = n - 1}, x \in S}

\* A statement of the parsed list.  nested is in breadth-first order of the
\* AST below the statement.  "None" is what sqlglot.parse yields for an
\* empty segment.
Stmt(type, limit, nested, funcs) ==
    [type |-> type, limit |-> limit, nested |-> nested, funcs |-> funcs]

NoneStmt == Stmt("None", NoLimit, <<>>, {})

RichSelects ==
    {Stmt("Select", l, n, f) :
        l \in Limits, n \in SeqsUpTo(NestedNodes, MaxNested), f \in FuncSets}

SimpleStmts ==
    {Stmt(t, NoLimit, <<>>, {}) : t \in StmtTypes \ {"Select"}}
    \cup {Stmt("Select", l, <<>>, f) :
            l \in {NoLimit, LitLimit(50), LitLimit(SQL_MAX_ROWS + 1)},
            f \in {{}, {AnonFunc("pg_sleep")}}}
    \cup {NoneStmt}

\* The sql argument: the empty string ("empty"), whitespace ("blank"), text the
\* parser rejects ("garbage"), or a semicolon-separated list of segments
\* ("list"), a segment being a statement or empty (NoneStmt).
Sql(kind, segs) == [kind |-> kind, segs |-> segs]

SqlEmpty == Sql("empty", <<>>)

SqlInputs ==
    {SqlEmpty, Sql("blank", <<>>), Sql("garbage", <<>>)}
    \cup {Sql("list", <<s>>) : s \in RichSelects}
    \cup {Sql("list", segs) : segs \in SeqsUpTo(SimpleStmts, MaxStmts) \ {<<>>}}

----------------------------------------------------------------------------
(* SQLFirewall                                                             *)

max_rows == SQL_MAX_ROWS

Raise(code)   == [ok |-> FALSE, code |-> code, stmts |-> <<>>]
Return(stmts) == [ok |-> TRUE,  code |-> "",   stmts |-> stmts]
NotCalled     == [ok |-> FALSE, code |-> "NOT_CALLED", stmts |-> <<>>]

\* sql.strip().rstrip(";"): the trailing semicolons go, i.e. the trailing
\* empty segments.
RECURSIVE StripSemicolons(_)
StripSemicolons(segs) ==
    IF segs # <<>> /\ segs[Len(segs)] = NoneStmt
    THEN StripSemicolons(SubSeq(segs, 1, Len(segs) - 1))
    ELSE segs

\* sqlglot.parse: one entry per segment, None for an empty one; the empty
\* text parses to [None].
Parse(segs) == IF segs = <<>> THEN <<NoneStmt>> ELSE segs

\* statement.find(exp.Limit): breadth-first, so the statement's own LIMIT
\* comes before the LIMIT of any nested query.
RECURSIVE FirstNestedLimit(_)
FirstNestedLimit(nested) ==
    IF nested = <<>> THEN NoLimit
    ELSE IF nested[1].limit.k # "none" THEN nested[1].limit
         ELSE FirstNestedLimit(Tail(nested))

FindLimit(statement) ==
    IF statement.limit.k # "none" THEN statement.limit
    ELSE FirstNestedLimit(statement.nested)

\* statement.limit(n): sets the statement's own LIMIT.
WithLimit(statement, n) == [statement EXCEPT !.limit = LitLimit(n)]

EnsureLimitNoCap(statement) ==
    IF FindLimit(statement).k = "none"
    THEN WithLimit(statement, max_rows)
    ELSE statement

EnsureLimitCapsNonLiteral(statement) ==
    LET limit_node == FindLimit(statement)
    IN  IF limit_node.k = "none"
        THEN WithLimit(statement, max_rows)
        ELSE IF limit_node.k = "expr" \/ limit_node.v > max_rows
             THEN WithLimit(statement, max_rows)
             ELSE statement

_ensure_limit(statement) ==
    LET limit_node == FindLimit(statement)
    IN  IF limit_node.k = "none"
        THEN WithLimit(statement, max_rows)
        ELSE IF limit_node.k = "lit" /\ limit_node.v > max_rows
             THEN WithLimit(statement, max_rows)
             ELSE statement      \* int() raised, or the literal is small

CheckDangerousCaseSensitive(node) ==
    IF \E i \in 1..Len(node.nested) :
           /\ node.nested[i].wrap = "Subquery"
           /\ node.nested[i].root \in BLOCKED_STATEMENT_TYPES
    THEN "BLOCKED_SUBQUERY"
    ELSE IF \E f \in node.funcs :
                /\ f.cls = "Anonymous"
                /\ f.name \in BLOCKED_FUNCTIONS
         THEN "BLOCKED_FUNCTION"
         ELSE "OK"

\* _check_dangerous_nodes: "OK" or the code of the error it raises.
_check_dangerous_nodes(node) ==
    IF \E i \in 1..Len(node.nested) :
           /\ node.nested[i].wrap = "Subquery"
           /\ node.nested[i].root \in BLOCKED_STATEMENT_TYPES
    THEN "BLOCKED_SUBQUERY"
    ELSE IF \E f \in node.funcs :
                /\ f.cls = "Anonymous"
                /\ Lower(f.name) \in BLOCKED_FUNCTIONS
         THEN "BLOCKED_FUNCTION"
         ELSE IF \E f \in node.funcs :
                  Lower(IF f.cls = "Anonymous" THEN "ANONYMOUS" ELSE f.name)
                      \in BLOCKED_FUNCTIONS
              THEN "BLOCKED_FUNCTION"
              ELSE "OK"

CheckStatementNoSelectTest(statement) ==
    IF statement.type \in BLOCKED_STATEMENT_TYPES THEN "BLOCKED_STATEMENT"
    ELSE _check_dangerous_nodes(statement)

\* The checks of one pass of validate's loop: "OK" or the error code.
CheckStatement(statement) ==
    IF statement.type \in BLOCKED_STATEMENT_TYPES THEN "BLOCKED_STATEMENT"
    ELSE IF statement.type # "Select" THEN "NON_SELECT"
    ELSE _check_dangerous_nodes(statement)

\* validate's loop over the parsed list, safe_statements being the
\* statements kept so far.
RECURSIVE ValidateLoop(_, _)
ValidateLoop(parsed, safe_statements) ==
    IF parsed = <<>> THEN Return(safe_statements)
    ELSE LET statement == Head(parsed)
         IN  IF statement = NoneStmt
             THEN ValidateLoop(Tail(parsed), safe_statements)
             ELSE IF CheckStatement(statement) # "OK"
                  THEN Raise(CheckStatement(statement))
                  ELSE ValidateLoop(Tail(parsed),
                           Append(safe_statements, _ensure_limit(statement)))

\* "; ".join(stmt.sql(dialect="postgres") for stmt in safe_statements): the
\* text of the list, the empty string for the empty list.
JoinSql(stmts) == IF stmts = <<>> THEN SqlEmpty ELSE Sql("list", stmts)

validate(sql_text) ==
    IF sql_text.kind \in {"empty", "blank"} THEN Raise("EMPTY_SQL")
    ELSE IF sql_text.kind = "garbage" THEN Raise("PARSE_ERROR")
    ELSE LET parsed == Parse(StripSemicolons(sql_text.segs))
         IN  IF parsed = <<>> THEN Raise("PARSE_ERROR")
             ELSE ValidateLoop(parsed, <<>>)

----------------------------------------------------------------------------
(* QueryLimiter                                                            *)

Clients    == {"default", "other"}
Runs       == 1..MaxRuns
\* Limiter objects: 0 is the limiter of a state machine built once, r > 0
\* the limiter the route builds for request r.
LimiterIds == 0..MaxRuns

\* defaultdict(list)
NoTimestamps == [c \in Clients |-> <<>>]

TrimKeepBoundary(stamps, now) ==
    SelectSeq(stamps, LAMBDA ts : ts >= now - WINDOW)

\* the list comprehension that drops the expired records
Trim(stamps, now) ==
    SelectSeq(stamps, LAMBDA ts : ts > now - WINDOW)

OverCapOffByOne(stamps, cap) == Len(stamps) > cap

\* len(self._request_timestamps[client_id]) >= self.max_rpm
OverCap(stamps, cap) == Len(stamps) >= cap

CheckRateLimitCountsRefusals(stamps, now, cap) ==
    LET trimmed == Trim(stamps, now)
    IN  [admitted |-> ~OverCap(trimmed, cap), stamps |-> Append(trimmed, now)]

\* check_rate_limit on one client's list: whether the call returned (TRUE)
\* or raised RATE_LIMIT (FALSE), and the list it leaves.
check_rate_limit(stamps, now, cap) ==
    LET trimmed == Trim(stamps, now)
    IN  IF OverCap(trimmed, cap)
        THEN [admitted |-> FALSE, stamps |-> trimmed]
        ELSE [admitted |-> TRUE,  stamps |-> Append(trimmed, now)]

\* A record of the history: the limiter object called, the run that called
\* it (0 for a direct call), the client id, the clock reading, the number
\* of unexpired timestamps the call found, and whether it returned.
Call(lim, run, c, t, res) ==
    [lim |-> lim, run |-> run, client |-> c, t |-> t,
     seen |-> IF res.admitted THEN Len(res.stamps) - 1 ELSE Len(res.stamps),
     admitted |-> res.admitted]

\* Advances of the clock: sums of these give readings that are 1, 59, 60
\* and 61 apart.
TickSteps == {WINDOW \div 2, WINDOW - 1}

\* time passes
Tick ==
    /\ \E d \in TickSteps :
          /\ clock + d <= MaxClock
          /\ clock' = clock + d
    /\ UNCHANGED <<cfgvars, idxvars, strvars, parsevars, fwvars, fillvars, exevars, max_rpm, _request_timestamps, calls, runvars>>

CallCheckRateLimitOneList(c) ==
    /\ Len(calls) < MaxCalls
    /\ LET res == check_rate_limit(_request_timestamps[0][c], clock, max_rpm[0])
       IN  /\ _request_timestamps' =
                 [_request_timestamps EXCEPT ![0] = [d \in Clients |-> res.stamps]]
           /\ calls' = Append(calls, Call(0, 0, c, clock, res))
    /\ UNCHANGED <<cfgvars, idxvars, strvars, parsevars, fwvars, fillvars, exevars, clock, max_rpm, runvars>>

\* A direct call limiter.check_rate_limit(c) on limiter object 0.
CallCheckRateLimit(c) ==
    /\ Len(calls) < MaxCalls
    /\ LET res == check_rate_limit(_request_timestamps[0][c], clock, max_rpm[0])
       IN  /\ _request_timestamps' =
                 [_request_timestamps EXCEPT ![0][c] = res.stamps]
           /\ calls' = Append(calls, Call(0, 0, c, clock, res))
    /\ UNCHANGED <<cfgvars, idxvars, strvars, parsevars, fwvars, fillvars, exevars, clock, max_rpm, runvars>>

----------------------------------------------------------------------------
(* SchemaEmbedder and schema_refresh                                       *)

\* The collection schema_embeddings of the vector store: delete_collection
\* followed by get_or_create_collection gives a collection with a new id
\* and no document.
Store(id, count) == [id |-> id, count |-> count]

FirstCollection == 0

\* The numbers of tables an extraction finds: fewer and more than top_k.
TableCounts == {2, 7}

\* The index as the startup build leaves it when it finds tables.
BuiltCount == 7

\* extractor.extract(session): it raises, or returns the tables it found.
ExtractOutcomes ==
    {[raised |-> TRUE, tables |-> 0]}
    \cup {[raised |-> FALSE, tables |-> n] : n \in {0} \cup TableCounts}

\* schema_refresh up to `await extractor.extract(session)`: a new
\* SchemaEmbedder, and embedder.reset().
RefreshReset ==
    /\ refresh = "idle"
    /\ Len(refreshed) < MaxRefresh
    /\ chroma' = Store(chroma.id + 1, 0)
    /\ refresh' = "extracting"
    /\ UNCHANGED <<cfgvars, strvars, parsevars, fwvars, limvars, runvars, fillvars, exevars,
                   collection, schema_context, refreshed>>

RefreshBuildKeepsOnFailure ==
    /\ refresh = "extracting"
    /\ refresh' = "idle"
    /\ \E out \in ExtractOutcomes :
          CASE out.raised ->
                 /\ refreshed' = Append(refreshed, "error")
                 /\ chroma' = Store(chroma.id, BuiltCount)
            [] out.tables = 0 ->
                 /\ refreshed' = Append(refreshed, "warning")
                 /\ chroma' = Store(chroma.id, BuiltCount)
            [] OTHER ->
                 /\ refreshed' = Append(refreshed, "refreshed")
                 /\ chroma' = Store(chroma.id, out.tables)
    /\ UNCHANGED <<cfgvars, strvars, parsevars, fwvars, limvars, runvars, fillvars, exevars,
                   collection, schema_context>>

\* The rest of schema_refresh: the extraction raises (status error), finds
\* no table (status warning), or finds tables, which index_documents
\* upserts into the collection reset() created (status refreshed).
RefreshBuild ==
    /\ refresh = "extracting"
    /\ refresh' = "idle"
    /\ \E out \in ExtractOutcomes :
          CASE out.raised ->
                 /\ refreshed' = Append(refreshed, "error")
                 /\ UNCHANGED chroma
            [] out.tables = 0 ->
                 /\ refreshed' = Append(refreshed, "warning")
                 /\ UNCHANGED chroma
            [] OTHER ->
                 /\ refreshed' = Append(refreshed, "refreshed")
                 /\ chroma' = Store(chroma.id, out.tables)
    /\ UNCHANGED <<cfgvars, strvars, parsevars, fwvars, limvars, runvars, fillvars, exevars,
                   collection, schema_context>>

----------------------------------------------------------------------------
(* LLMEngine.generate_stream, as far as run() sees it                      *)

Thinkings == {"", "thinking"}

\* echarts_option of the envelope: absent or empty ("none"), or a value
\* ("option"), which generate_stream serializes with json.dumps.
VizKinds == {"none", "option"}

\* The sql texts of the runs: a plain SELECT, a DELETE, and the text ";".
SelectSql == Sql("list", <<Stmt("Select", NoLimit, <<>>, {})>>)
DeleteSql == Sql("list", <<Stmt("Delete", NoLimit, <<>>, {})>>)
SemiSql   == Sql("list", <<NoneStmt>>)

\* chart_type of the envelope: no such key ("absent"), a chart type of
\* the prompt, or another string.
ChartValues == {"absent", "line", "radar"}

\* What _parse_response returned: nothing or a falsy value ("none"), a
\* value that is no dict ("nondict"), or the envelope ("dict").  "pending":
\* the stream has not ended.
Envelope(kind, thinking, sql_text, chart, option) ==
    [kind |-> kind, thinking |-> thinking, sql |-> sql_text,
     chart_type |-> chart, echarts_option |-> option]

Pending == Envelope("pending", "", SqlEmpty, "absent", "none")

\* The envelopes of the runs: without sql (with and without thinking),
\* with a sql the firewall refuses or empties, and with a SELECT and each
\* kind of chart_type and option.
ParsedValues ==
    {Envelope("none", "", SqlEmpty, "absent", "none"),
     Envelope("nondict", "", SqlEmpty, "absent", "none")}
    \cup {Envelope("dict", t, SqlEmpty, "absent", "none") : t \in Thinkings}
    \cup {Envelope("dict", "thinking", s, "absent", "none") : s \in {DeleteSql, SemiSql}}
    \cup {Envelope("dict", "thinking", SelectSql, c, v) :
             c \in ChartValues, v \in VizKinds}

----------------------------------------------------------------------------
(* QueryStateMachine.run                                                   *)

\* The stages of QueryState, in the order run() goes through them.
QueryState ==
    <<"init", "schema_retrieval", "llm_generation", "sql_validation",
      "sql_execution", "result_streaming", "completed">>

Ev(event, arg, done) == [event |-> event, arg |-> arg, done |-> done]

StateEv(name) == Ev("state", name, FALSE)
ErrorEv(code) == Ev("error", code, FALSE)

Emit(r, e) == events' = [events EXCEPT ![r] = Append(@, e)]
Goto(r, l) == pc' = [pc EXCEPT ![r] = l]
Calling(r, who) == called' = [called EXCEPT ![r] = @ \cup {who}]

NoSafeSql == [valid |-> FALSE, stmts |-> <<>>]

NumDeltas(r) ==
    Cardinality({i \in DOMAIN events[r] :
                    events[r][i].event = "thought" /\ events[r][i].arg = "delta"})

AdmissionNoReturn(r, lim, c, stamps, cap) ==
    /\ pc[r] = "new"
    /\ LET res == check_rate_limit(stamps[c], clock, cap)
       IN  /\ _request_timestamps' =
                 [_request_timestamps EXCEPT
                     ![lim] = [stamps EXCEPT ![c] = res.stamps]]
           /\ max_rpm' = [max_rpm EXCEPT ![lim] = cap]
           /\ calls' = Append(calls, Call(lim, r, c, clock, res))
           /\ IF res.admitted
              THEN Emit(r, StateEv("schema_retrieval"))
              ELSE Emit(r, ErrorEv("RATE_LIMIT"))
           /\ Goto(r, "schema_retrieval")
    /\ client_id' = [client_id EXCEPT ![r] = c]
    /\ Calling(r, "limiter")
    /\ UNCHANGED <<cfgvars, strvars, parsevars, fwvars, fillvars, exevars, executed, validated, clock,
                   llm_parsed, full_thinking, sql, viz_config, chart_type, attempt,
                   safe_sql, exec, deadline, chroma, schema_context, refresh, refreshed>>

\* run() up to its first yield: the rate check on the limiter lim, whose
\* map is stamps and whose cap is cap.
Admission(r, lim, c, stamps, cap) ==
    /\ pc[r] = "new"
    /\ LET res == check_rate_limit(stamps[c], clock, cap)
       IN  /\ _request_timestamps' =
                 [_request_timestamps EXCEPT
                     ![lim] = [stamps EXCEPT ![c] = res.stamps]]
           /\ max_rpm' = [max_rpm EXCEPT ![lim] = cap]
           /\ calls' = Append(calls, Call(lim, r, c, clock, res))
           /\ IF res.admitted
              THEN Emit(r, StateEv("schema_retrieval")) /\ Goto(r, "schema_retrieval")
              ELSE Emit(r, ErrorEv("RATE_LIMIT")) /\ Goto(r, "end")
    /\ client_id' = [client_id EXCEPT ![r] = c]
    /\ Calling(r, "limiter")
    /\ UNCHANGED <<cfgvars, strvars, parsevars, fwvars, fillvars, exevars, executed, validated, clock,
                   llm_parsed, full_thinking, sql, viz_config, chart_type, attempt,
                   safe_sql, exec, deadline, chroma, schema_context, refresh, refreshed>>

\* run(question, session) on the state machine built once (limiter 0,
\* and an embedder that got its collection when it was built); no caller
\* passes a client_id, so it is the default one.
StartRun(r) ==
    /\ Admission(r, 0, "default", _request_timestamps[0], max_rpm[0])
    /\ collection' = [collection EXCEPT ![r] = FirstCollection]

\* POST /api/query: _sse_event_generator builds a state machine, hence a
\* QueryLimiter, for this request and starts run() with the default
\* client id.
RouteRequest(r) ==
    /\ Admission(r, r, "default", NoTimestamps, ROUTE_MAX_RPM)
    /\ collection' = [collection EXCEPT ![r] = chroma.id]

\* retrieve's default top_k
top_k == 5

\* What retrieve_as_context produced: nothing yet ("none"), a context
\* ("returned": text is "" or "docs"), or an exception: of the vector store
\* for a collection that was deleted ("gone"), or of the query ("failed").
\* count is what get_collection_count() returned (-1: it raised), asked
\* the n_results of the query (0: no query was made).
Context(status, text, count, asked) ==
    [status |-> status, text |-> text, count |-> count, asked |-> asked]
NoContext == Context("none", "", -1, 0)

\* retrieve on the collection handle h: get_collection_count() and, when
\* it is not 0, collection.query(n_results=min(top_k, count)).  The
\* handle of a collection that delete_collection removed is of no use any
\* more: count() raises.  A query for at most count hits can still fail
\* (the embedding function, the store).
RetrieveOutcomes(h) ==
    IF h # chroma.id THEN {Context("gone", "", -1, 0)}
    ELSE IF chroma.count = 0 THEN {Context("returned", "", 0, 0)}
    ELSE LET n_results == IF top_k < chroma.count THEN top_k ELSE chroma.count
         IN  {Context("returned", "docs", chroma.count, n_results),
              Context("failed", "", chroma.count, n_results)}

RetrieveSchemaEmptyEnds(r) ==
    /\ pc[r] = "schema_retrieval"
    /\ Calling(r, "retriever")
    /\ \E out \in RetrieveOutcomes(collection[r]) :
          /\ schema_context' = [schema_context EXCEPT ![r] = out]
          /\ IF out.status # "returned"
             THEN Goto(r, "raised") /\ UNCHANGED events
             ELSE IF out.text = ""
                  THEN Emit(r, ErrorEv("NO_SQL")) /\ Goto(r, "end")
                  ELSE Emit(r, StateEv("llm_generation")) /\ Goto(r, "llm_generation")
    /\ UNCHANGED <<cfgvars, strvars, parsevars, fwvars, fillvars, exevars, executed, validated,
                   limvars, client_id, llm_parsed, full_thinking, sql, viz_config,
                   chart_type, attempt, safe_sql, exec, deadline, chroma, collection,
                   refresh, refreshed>>

\* retriever.retrieve_as_context, then the entry of llm_generation.  The
\* context (empty or not) goes to the LLM only; an exception of the vector
\* store leaves run().
RetrieveSchema(r) ==
    /\ pc[r] = "schema_retrieval"
    /\ Calling(r, "retriever")
    /\ \E out \in RetrieveOutcomes(collection[r]) :
          /\ schema_context' = [schema_context EXCEPT ![r] = out]
          /\ IF out.status # "returned"
             THEN Goto(r, "raised") /\ UNCHANGED events
             ELSE Emit(r, StateEv("llm_generation")) /\ Goto(r, "llm_generation")
    /\ UNCHANGED <<cfgvars, strvars, parsevars, fwvars, fillvars, exevars, executed, validated,
                   limvars, client_id, llm_parsed, full_thinking, sql, viz_config,
                   chart_type, attempt, safe_sql, exec, deadline, chroma, collection,
                   refresh, refreshed>>

\* A non-empty chunk arrives: thinking_delta, forwarded as a thought.
LLMChunk(r) ==
    /\ pc[r] = "llm_generation"
    /\ NumDeltas(r) < MaxChunks
    /\ Calling(r, "llm")
    /\ Emit(r, Ev("thought", "delta", FALSE))
    /\ UNCHANGED <<cfgvars, idxvars, strvars, parsevars, fwvars, fillvars, exevars, executed, validated, limvars, pc, client_id, llm_parsed, full_thinking,
                   sql, viz_config, chart_type, attempt, safe_sql, exec, deadline>>

\* The request or the stream raises: generate_stream yields error
\* LLM_ERROR, run() breaks, yields the error and returns.
LLMFail(r) ==
    /\ pc[r] = "llm_generation"
    /\ Calling(r, "llm")
    /\ Emit(r, ErrorEv("LLM_ERROR"))
    /\ Goto(r, "end")
    /\ UNCHANGED <<cfgvars, idxvars, strvars, parsevars, fwvars, fillvars, exevars, executed, validated, limvars, client_id, llm_parsed, full_thinking,
                   sql, viz_config, chart_type, attempt, safe_sql, exec, deadline>>

\* The stream ends and the body is parsed.
LLMEnd(r) ==
    /\ pc[r] = "llm_generation"
    /\ Calling(r, "llm")
    /\ \E parsed \in ParsedValues :
          /\ llm_parsed' = [llm_parsed EXCEPT ![r] = parsed]
          /\ CASE parsed.kind = "none" ->
                    /\ Emit(r, ErrorEv("PARSE_FAILED"))
                    /\ Goto(r, "end")
                    /\ UNCHANGED full_thinking
               [] parsed.kind = "nondict" ->      \* parsed.get raises
                    /\ Emit(r, ErrorEv("LLM_ERROR"))
                    /\ Goto(r, "end")
                    /\ UNCHANGED full_thinking
               [] OTHER ->
                    /\ full_thinking' = [full_thinking EXCEPT ![r] = parsed.thinking]
                    /\ Emit(r, Ev("thought", "full", TRUE))
                    /\ Goto(r, "thinking_full")
    /\ UNCHANGED <<cfgvars, idxvars, strvars, parsevars, fwvars, fillvars, exevars, executed, validated, limvars, client_id, sql, viz_config, chart_type,
                   attempt, safe_sql, exec, deadline>>

LLMRestSharedSql(r) ==
    /\ pc[r] = "thinking_full"
    /\ sql' = [q \in Runs |-> llm_parsed[r].sql]
    /\ viz_config' = [viz_config EXCEPT ![r] =
                         IF llm_parsed[r].echarts_option = "none" THEN ""
                         ELSE llm_parsed[r].echarts_option]
    /\ IF llm_parsed[r].sql = SqlEmpty
       THEN /\ Emit(r, Ev("thought",
                          IF full_thinking[r] # "" THEN "full" ELSE "default", TRUE))
            /\ Goto(r, "no_sql")
       ELSE /\ Emit(r, StateEv("sql_validation"))
            /\ Goto(r, "sql_validation")
    /\ UNCHANGED <<cfgvars, idxvars, strvars, parsevars, fwvars, fillvars, exevars, executed, validated, limvars, client_id, llm_parsed, full_thinking,
                   chart_type, attempt, safe_sql, exec, deadline, called>>

\* generate_stream yields sql and, for a non-empty option, viz_config, and
\* ends (it yields no chart_type, whatever the envelope holds); run() leaves
\* the loop and tests sql.
LLMRest(r) ==
    /\ pc[r] = "thinking_full"
    /\ sql' = [sql EXCEPT ![r] = llm_parsed[r].sql]
    /\ viz_config' = [viz_config EXCEPT ![r] =
                         IF llm_parsed[r].echarts_option = "none" THEN ""
                         ELSE llm_parsed[r].echarts_option]
    /\ IF llm_parsed[r].sql = SqlEmpty
       THEN /\ Emit(r, Ev("thought",
                          IF full_thinking[r] # "" THEN "full" ELSE "default", TRUE))
            /\ Goto(r, "no_sql")
       ELSE /\ Emit(r, StateEv("sql_validation"))
            /\ Goto(r, "sql_validation")
    /\ UNCHANGED <<cfgvars, idxvars, strvars, parsevars, fwvars, fillvars, exevars, executed, validated, limvars, client_id, llm_parsed, full_thinking,
                   chart_type, attempt, safe_sql, exec, deadline, called>>

NoSql(r) ==
    /\ pc[r] = "no_sql"
    /\ Emit(r, ErrorEv("NO_SQL"))
    /\ Goto(r, "end")
    /\ UNCHANGED <<cfgvars, idxvars, strvars, parsevars, fwvars, fillvars, exevars, executed, validated, limvars, client_id, llm_parsed, full_thinking, sql,
                   viz_config, chart_type, attempt, safe_sql, exec, deadline, called>>

ValidateAttemptErrorEachTime(r) ==
    /\ pc[r] = "sql_validation"
    /\ attempt[r] < max_retries        \* for attempt in range(self.max_retries)
    /\ Calling(r, "firewall")
    /\ validated' = [validated EXCEPT ![r] = Append(@, sql[r])]
    /\ LET res == validate(sql[r])
       IN  IF res.ok
           THEN /\ safe_sql' = [safe_sql EXCEPT ![r] = [valid |-> TRUE, stmts |-> res.stmts]]
                /\ UNCHANGED attempt
                /\ IF res.stmts = <<>>
                   THEN Emit(r, ErrorEv("VALIDATION_FAILED")) /\ Goto(r, "end")
                   ELSE Emit(r, Ev("sql", "safe", FALSE)) /\ Goto(r, "sql")
           ELSE /\ UNCHANGED safe_sql
                /\ Emit(r, ErrorEv(res.code))
                /\ IF attempt[r] < max_retries - 1
                   THEN /\ attempt' = [attempt EXCEPT ![r] = @ + 1]
                        /\ UNCHANGED pc
                   ELSE /\ Goto(r, "end")
                        /\ UNCHANGED attempt
    /\ UNCHANGED <<cfgvars, idxvars, strvars, parsevars, fwvars, fillvars, exevars, executed, limvars, client_id, llm_parsed, full_thinking, sql,
                   viz_config, chart_type, exec, deadline>>

ValidateAttemptFailFast(r) ==
    /\ pc[r] = "sql_validation"
    /\ attempt[r] < max_retries        \* for attempt in range(self.max_retries)
    /\ Calling(r, "firewall")
    /\ validated' = [validated EXCEPT ![r] = Append(@, sql[r])]
    /\ LET res == validate(sql[r])
       IN  IF res.ok
           THEN /\ safe_sql' = [safe_sql EXCEPT ![r] = [valid |-> TRUE, stmts |-> res.stmts]]
                /\ UNCHANGED attempt
                /\ IF res.stmts = <<>>      \* not safe_sql: the empty string
                   THEN Emit(r, ErrorEv("VALIDATION_FAILED")) /\ Goto(r, "end")
                   ELSE Emit(r, Ev("sql", "safe", FALSE)) /\ Goto(r, "sql")
           ELSE /\ UNCHANGED safe_sql
                /\ Emit(r, ErrorEv(res.code))
                /\ Goto(r, "end")
                /\ UNCHANGED attempt
    /\ UNCHANGED <<cfgvars, idxvars, strvars, parsevars, fwvars, fillvars, exevars, executed, limvars, client_id, llm_parsed, full_thinking, sql,
                   viz_config, chart_type, exec, deadline>>

ValidateAttemptOneMore(r) ==
    /\ pc[r] = "sql_validation"
    /\ Calling(r, "firewall")
    /\ validated' = [validated EXCEPT ![r] = Append(@, sql[r])]
    /\ LET res == validate(sql[r])
       IN  IF res.ok
           THEN /\ safe_sql' = [safe_sql EXCEPT ![r] = [valid |-> TRUE, stmts |-> res.stmts]]
                /\ UNCHANGED attempt
                /\ IF res.stmts = <<>>      \* not safe_sql: the empty string
                   THEN Emit(r, ErrorEv("VALIDATION_FAILED")) /\ Goto(r, "end")
                   ELSE Emit(r, Ev("sql", "safe", FALSE)) /\ Goto(r, "sql")
           ELSE /\ UNCHANGED safe_sql
                /\ IF attempt[r] < max_retries
                   THEN /\ Emit(r, Ev("thought", "retry", FALSE))
                        /\ attempt' = [attempt EXCEPT ![r] = @ + 1]
                        /\ UNCHANGED pc
                   ELSE /\ Emit(r, ErrorEv(res.code))
                        /\ Goto(r, "end")
                        /\ UNCHANGED attempt
    /\ UNCHANGED <<cfgvars, idxvars, strvars, parsevars, fwvars, fillvars, exevars, executed, limvars, client_id, llm_parsed, full_thinking, sql,
                   viz_config, chart_type, exec, deadline>>

\* One pass of the validation loop, up to the next yield.
ValidateAttempt(r) ==
    /\ pc[r] = "sql_validation"
    /\ attempt[r] < max_retries        \* for attempt in range(self.max_retries)
    /\ Calling(r, "firewall")
    /\ validated' = [validated EXCEPT ![r] = Append(@, sql[r])]
    /\ LET res == validate(sql[r])
       IN  IF res.ok
           THEN /\ safe_sql' = [safe_sql EXCEPT ![r] = [valid |-> TRUE, stmts |-> res.stmts]]
                /\ UNCHANGED attempt
                /\ IF res.stmts = <<>>      \* not safe_sql: the empty string
                   THEN Emit(r, ErrorEv("VALIDATION_FAILED")) /\ Goto(r, "end")
                   ELSE Emit(r, Ev("sql", "safe", FALSE)) /\ Goto(r, "sql")
           ELSE /\ UNCHANGED safe_sql
                /\ IF attempt[r] < max_retries - 1
                   THEN /\ Emit(r, Ev("thought", "retry", FALSE))
                        /\ attempt' = [attempt EXCEPT ![r] = @ + 1]
                        /\ UNCHANGED pc
                   ELSE /\ Emit(r, ErrorEv(res.code))
                        /\ Goto(r, "end")
                        /\ UNCHANGED attempt
    /\ UNCHANGED <<cfgvars, idxvars, strvars, parsevars, fwvars, fillvars, exevars, executed, limvars, client_id, llm_parsed, full_thinking, sql,
                   viz_config, chart_type, exec, deadline>>

ValidationSkippedGoesOn(r) ==
    /\ pc[r] = "sql_validation"
    /\ attempt[r] >= max_retries
    /\ Emit(r, ErrorEv("VALIDATION_FAILED"))
    /\ Goto(r, "sql")
    /\ UNCHANGED <<cfgvars, idxvars, strvars, parsevars, fwvars, fillvars, exevars, executed, validated,
                   limvars, client_id, llm_parsed, full_thinking, sql, viz_config,
                   chart_type, attempt, safe_sql, exec, deadline, called>>

\* The validation loop of a machine whose max_retries is zero or less:
\* range(self.max_retries) is empty, validate is not called, safe_sql is
\* still None and run() ends with VALIDATION_FAILED.
ValidationSkipped(r) ==
    /\ pc[r] = "sql_validation"
    /\ attempt[r] >= max_retries
    /\ Emit(r, ErrorEv("VALIDATION_FAILED"))
    /\ Goto(r, "end")
    /\ UNCHANGED <<cfgvars, idxvars, strvars, parsevars, fwvars, fillvars, exevars, executed, validated,
                   limvars, client_id, llm_parsed, full_thinking, sql, viz_config,
                   chart_type, attempt, safe_sql, exec, deadline, called>>

EnterExecutionSilent(r) ==
    /\ pc[r] = "sql"
    /\ Goto(r, "sql_execution")
    /\ UNCHANGED <<cfgvars, idxvars, strvars, parsevars, fwvars, fillvars, exevars, executed, validated, limvars, events,
                   client_id, llm_parsed, full_thinking, sql, viz_config,
                   chart_type, attempt, safe_sql, exec, deadline, called>>

\* the entry of sql_execution
EnterExecution(r) ==
    /\ pc[r] = "sql"
    /\ Emit(r, StateEv("sql_execution"))
    /\ Goto(r, "sql_execution")
    /\ UNCHANGED <<cfgvars, idxvars, strvars, parsevars, fwvars, fillvars, exevars, executed, validated, limvars, client_id, llm_parsed, full_thinking, sql,
                   viz_config, chart_type, attempt, safe_sql, exec, deadline, called>>

StartExecuteRawSql(r) ==
    /\ pc[r] = "sql_execution"
    /\ exec' = [exec EXCEPT ![r] = "running"]
    /\ deadline' = [deadline EXCEPT ![r] = "armed"]
    /\ executed' = [executed EXCEPT ![r] = Append(@, sql[r])]
    /\ Calling(r, "executor")
    /\ Goto(r, "executing")
    /\ UNCHANGED <<cfgvars, idxvars, strvars, parsevars, fwvars, fillvars, exevars, validated, limvars, events, client_id,
                   llm_parsed,
                   full_thinking, sql, viz_config, chart_type, attempt, safe_sql>>

\* limiter.execute_with_timeout(executor.execute(session, safe_sql)):
\* wait_for starts the coroutine and its timer, and run() waits.
StartExecute(r) ==
    /\ pc[r] = "sql_execution"
    /\ exec' = [exec EXCEPT ![r] = "running"]
    /\ deadline' = [deadline EXCEPT ![r] = "armed"]
    /\ executed' = [executed EXCEPT ![r] = Append(@, JoinSql(safe_sql[r].stmts))]
    /\ Calling(r, "executor")
    /\ Goto(r, "executing")
    /\ UNCHANGED <<cfgvars, idxvars, strvars, parsevars, fwvars, fillvars, exevars, validated, limvars, events, client_id,
                   llm_parsed,
                   full_thinking, sql, viz_config, chart_type, attempt, safe_sql>>

\* The executor returns a QueryResult before the timer fires.
ExecuteReturns(r) ==
    /\ pc[r] = "executing"
    /\ exec[r] = "running"
    /\ exec' = [exec EXCEPT ![r] = "returned"]
    /\ deadline' = [deadline EXCEPT ![r] = "disarmed"]
    /\ Emit(r, StateEv("result_streaming"))
    /\ Goto(r, "result_streaming")
    /\ UNCHANGED <<cfgvars, idxvars, strvars, parsevars, fwvars, fillvars, exevars, executed, validated, limvars, client_id, llm_parsed, full_thinking, sql,
                   viz_config, chart_type, attempt, safe_sql, called>>

\* The driver raises before the timer fires; a TimeoutError of the driver
\* is caught by execute_with_timeout like the one of wait_for.
ExecuteRaises(r) ==
    /\ pc[r] = "executing"
    /\ exec[r] = "running"
    /\ exec' = [exec EXCEPT ![r] = "raised"]
    /\ deadline' = [deadline EXCEPT ![r] = "disarmed"]
    /\ \E exc \in {"TimeoutError", "Exception"} :
          Emit(r, ErrorEv(IF exc = "TimeoutError" THEN "QUERY_TIMEOUT"
                          ELSE "EXECUTION_ERROR"))
    /\ Goto(r, "end")
    /\ UNCHANGED <<cfgvars, idxvars, strvars, parsevars, fwvars, fillvars, exevars, executed, validated, limvars, client_id, llm_parsed, full_thinking, sql,
                   viz_config, chart_type, attempt, safe_sql, called>>

DeadlineFiresAndResultKept(r) ==
    /\ pc[r] = "executing"
    /\ exec[r] = "running"
    /\ deadline[r] = "armed"
    /\ exec' = [exec EXCEPT ![r] = "returned"]
    /\ deadline' = [deadline EXCEPT ![r] = "fired"]
    /\ Emit(r, ErrorEv("QUERY_TIMEOUT"))
    /\ Goto(r, "result_streaming")
    /\ UNCHANGED <<cfgvars, idxvars, strvars, parsevars, fwvars, fillvars, exevars, executed, validated, limvars, client_id, llm_parsed, full_thinking, sql,
                   viz_config, chart_type, attempt, safe_sql, called>>

\* The timer fires while the executor runs: wait_for cancels the coroutine
\* (execute lets CancelledError through) and raises TimeoutError, which
\* execute_with_timeout turns into QUERY_TIMEOUT.
DeadlineFires(r) ==
    /\ pc[r] = "executing"
    /\ exec[r] = "running"
    /\ deadline[r] = "armed"
    /\ exec' = [exec EXCEPT ![r] = "cancelled"]
    /\ deadline' = [deadline EXCEPT ![r] = "fired"]
    /\ Emit(r, ErrorEv("QUERY_TIMEOUT"))
    /\ Goto(r, "end")
    /\ UNCHANGED <<cfgvars, idxvars, strvars, parsevars, fwvars, fillvars, exevars, executed, validated, limvars, client_id, llm_parsed, full_thinking, sql,
                   viz_config, chart_type, attempt, safe_sql, called>>

EmitChartTypeBeforeData(r) ==
    /\ pc[r] = "result_streaming"
    /\ Emit(r, Ev("chart_type", chart_type[r], FALSE))
    /\ Goto(r, "data")
    /\ UNCHANGED <<cfgvars, idxvars, strvars, parsevars, fwvars, fillvars, exevars, executed, validated, limvars, client_id, llm_parsed, full_thinking, sql,
                   viz_config, chart_type, attempt, safe_sql, exec, deadline, called>>

\* yield data
EmitData(r) ==
    /\ pc[r] = "result_streaming"
    /\ Emit(r, Ev("data", "result", FALSE))
    /\ Goto(r, "data")
    /\ UNCHANGED <<cfgvars, idxvars, strvars, parsevars, fwvars, fillvars, exevars, executed, validated, limvars, client_id, llm_parsed, full_thinking, sql,
                   viz_config, chart_type, attempt, safe_sql, exec, deadline, called>>

\* yield chart_type
EmitChartType(r) ==
    /\ pc[r] = "data"
    /\ Emit(r, Ev("chart_type", chart_type[r], FALSE))
    /\ Goto(r, "chart_type")
    /\ UNCHANGED <<cfgvars, idxvars, strvars, parsevars, fwvars, fillvars, exevars, executed, validated, limvars, client_id, llm_parsed, full_thinking, sql,
                   viz_config, chart_type, attempt, safe_sql, exec, deadline, called>>

\* if viz_config: json.loads, _fill_echarts_data, yield; then the entry of
\* completed.  _fill_echarts_data raises on an option of an unexpected
\* shape (a number, an xAxis list of strings, a series of strings, ...),
\* and that exception, no JSONDecodeError, leaves run().
EmitVizConfig(r) ==
    /\ pc[r] = "chart_type"
    /\ IF viz_config[r] = ""
       THEN Emit(r, StateEv("completed")) /\ Goto(r, "completed")
       ELSE \E fill_raises \in BOOLEAN :
               IF fill_raises
               THEN Goto(r, "raised") /\ UNCHANGED events
               ELSE Emit(r, Ev("viz_config", "filled", FALSE)) /\ Goto(r, "viz_config")
    /\ UNCHANGED <<cfgvars, idxvars, strvars, parsevars, fwvars, fillvars, exevars, executed, validated, limvars, client_id, llm_parsed, full_thinking, sql,
                   viz_config, chart_type, attempt, safe_sql, exec, deadline, called>>

EnterCompleted(r) ==
    /\ pc[r] = "viz_config"
    /\ Emit(r, StateEv("completed"))
    /\ Goto(r, "completed")
    /\ UNCHANGED <<cfgvars, idxvars, strvars, parsevars, fwvars, fillvars, exevars, executed, validated, limvars, client_id, llm_parsed, full_thinking, sql,
                   viz_config, chart_type, attempt, safe_sql, exec, deadline, called>>

EmitDoneReleasesSlot(r) ==
    /\ pc[r] = "completed"
    /\ Emit(r, Ev("done", "", FALSE))
    /\ Goto(r, "end")
    /\ _request_timestamps' =
          [_request_timestamps EXCEPT ![0][client_id[r]] =
              IF @ = <<>> THEN @ ELSE SubSeq(@, 1, Len(@) - 1)]
    /\ UNCHANGED <<cfgvars, idxvars, strvars, parsevars, fwvars, fillvars, exevars, executed, validated, clock, max_rpm,
                   calls, client_id, llm_parsed, full_thinking, sql,
                   viz_config, chart_type, attempt, safe_sql, exec, deadline, called>>

\* yield done
EmitDone(r) ==
    /\ pc[r] = "completed"
    /\ Emit(r, Ev("done", "", FALSE))
    /\ Goto(r, "end")
    /\ UNCHANGED <<cfgvars, idxvars, strvars, parsevars, fwvars, fillvars, exevars, executed, validated, limvars, client_id, llm_parsed, full_thinking, sql,
                   viz_config, chart_type, attempt, safe_sql, exec, deadline, called>>

\* delta.content of a chunk: nothing (""), or a piece of text.
Chunks == {"", "a", "b"}

Streams == UNION {[1..n -> Chunks] : n \in 0..MaxStream}

PullChunkYieldsTotal(r) ==
    /\ pc[r] = "llm_generation"
    /\ llm_stream[r] # <<>>
    /\ Calling(r, "llm")
    /\ LET delta == Head(llm_stream[r])
       IN  /\ llm_stream' = [llm_stream EXCEPT ![r] = Tail(@)]
           /\ pulled' = [pulled EXCEPT ![r] = Append(@, delta)]
           /\ IF delta # ""
              THEN /\ full_content' = [full_content EXCEPT ![r] = @ \o delta]
                   /\ Emit(r, Ev("thought", full_content'[r], FALSE))
                   /\ Goto(r, "thought_delta")
              ELSE UNCHANGED <<full_content, events, pc>>
    /\ UNCHANGED <<cfgvars, idxvars, parsevars, fwvars, fillvars, exevars, executed, validated, limvars,
                   client_id, llm_parsed, full_thinking, sql, viz_config,
                   chart_type, attempt, safe_sql, exec, deadline>>

\* `async for chunk in response` gets the next chunk; one with content is
\* added to full_content and yielded as thinking_delta, which run() yields
\* as a thought and is suspended there; one without content is skipped.
PullChunk(r) ==
    /\ pc[r] = "llm_generation"
    /\ llm_stream[r] # <<>>
    /\ Calling(r, "llm")
    /\ LET delta == Head(llm_stream[r])
       IN  /\ llm_stream' = [llm_stream EXCEPT ![r] = Tail(@)]
           /\ pulled' = [pulled EXCEPT ![r] = Append(@, delta)]
           /\ IF delta # ""
              THEN /\ full_content' = [full_content EXCEPT ![r] = @ \o delta]
                   /\ Emit(r, Ev("thought", delta, FALSE))
                   /\ Goto(r, "thought_delta")
              ELSE UNCHANGED <<full_content, events, pc>>
    /\ UNCHANGED <<cfgvars, idxvars, parsevars, fwvars, fillvars, exevars, executed, validated, limvars,
                   client_id, llm_parsed, full_thinking, sql, viz_config,
                   chart_type, attempt, safe_sql, exec, deadline>>

\* The consumer asks for the next event: run() resumes generate_stream,
\* which goes back to waiting for a chunk.
ResumeStream(r) ==
    /\ pc[r] = "thought_delta"
    /\ Goto(r, "llm_generation")
    /\ UNCHANGED <<cfgvars, idxvars, parsevars, strvars, fwvars, fillvars, exevars, executed, validated,
                   limvars, events, client_id, llm_parsed, full_thinking, sql,
                   viz_config, chart_type, attempt, safe_sql, exec, deadline, called>>

\* The response is exhausted: the body is parsed.
StreamEnd(r) ==
    /\ llm_stream[r] = <<>>
    /\ LLMEnd(r)

CancelAsExecutionError(r) ==
    /\ pc[r] \notin {"new", "end", "raised", "cancelled"}
    /\ Goto(r, "cancelled")
    /\ IF pc[r] = "executing"
       THEN /\ exec' = [exec EXCEPT ![r] = "cancelled"]
            /\ deadline' = [deadline EXCEPT ![r] = "disarmed"]
            /\ Emit(r, ErrorEv("EXECUTION_ERROR"))
       ELSE UNCHANGED <<exec, deadline, events>>
    /\ UNCHANGED <<cfgvars, idxvars, strvars, parsevars, fwvars, fillvars, exevars, executed, validated, limvars,
                   client_id, llm_parsed, full_thinking, sql, viz_config,
                   chart_type, attempt, safe_sql, called>>

\* The caller closes the generator while it is suspended at a yield
\* (GeneratorExit), or the task is cancelled while run() waits for the
\* executor (CancelledError, which wait_for passes to the coroutine): both
\* are BaseExceptions, no handler of run() catches them, and run() is left.
Cancel(r) ==
    /\ pc[r] \notin {"new", "end", "raised", "cancelled"}
    /\ Goto(r, "cancelled")
    /\ IF pc[r] = "executing"
       THEN /\ exec' = [exec EXCEPT ![r] = "cancelled"]
            /\ deadline' = [deadline EXCEPT ![r] = "disarmed"]
       ELSE UNCHANGED <<exec, deadline>>
    /\ UNCHANGED <<cfgvars, idxvars, strvars, parsevars, fwvars, fillvars, exevars, executed, validated, limvars,
                   events, client_id, llm_parsed, full_thinking, sql, viz_config,
                   chart_type, attempt, safe_sql, called>>

\* The steps of run() after admission.
RunStep(r) ==
    \/ RetrieveSchema(r)
    \/ LLMChunk(r)
    \/ LLMFail(r)
    \/ LLMEnd(r)
    \/ LLMRest(r)
    \/ NoSql(r)
    \/ ValidateAttempt(r)
    \/ EnterExecution(r)
    \/ StartExecute(r)
    \/ ExecuteReturns(r)
    \/ ExecuteRaises(r)
    \/ DeadlineFires(r)
    \/ EmitData(r)
    \/ EmitChartType(r)
    \/ EmitVizConfig(r)
    \/ EnterCompleted(r)
    \/ EmitDone(r)

----------------------------------------------------------------------------
(* QueryResult.to_echarts_data and QueryStateMachine._fill_echarts_data    *)

\* A cell of a row, as _serialize_value leaves it: None, a number or a text.
Null    == [t |-> "null", v |-> ""]
Num(n)  == [t |-> "int",  v |-> ToString(n)]
Text(s) == [t |-> "str",  v |-> s]

\* str(cell)
str(cell) == Text(IF cell.t = "null" THEN "None" ELSE cell.v)

\* QueryResult(columns, rows, row_count, ...)
QueryResult(columns, rows, row_count) ==
    [columns |-> columns, rows |-> rows, row_count |-> row_count]

ColumnName(j) == "col" \o ToString(j)

\* The result with n columns and m rows whose first column holds the row
\* numbers (None in row 1 when nullcat) and whose cell (i, j) holds
\* 10 * i + j, or None for the rows of nulls in the second column.
MkResult(n, m, nulls, nullcat) ==
    QueryResult(
        [j \in 1..n |-> ColumnName(j)],
        [i \in 1..m |->
            [j \in 1..n |->
                IF j = 1 THEN (IF nullcat /\ i = 1 THEN Null ELSE Num(i))
                ELSE IF j = 2 /\ i \in nulls THEN Null
                ELSE Num(10 * i + j)]],
        m)

Results ==
    UNION {{MkResult(n, m, nulls, nullcat) :
                nulls \in SUBSET (1..m), nullcat \in BOOLEAN} :
           n \in 1..MaxCols, m \in 0..MaxFillRows}

\* The value under the key "data" of an axis or a series: no such key
\* ("absent"), what the LLM wrote ("llm"), a list of cells ("cells") or a
\* list of {name, value} pairs ("pairs").
Data(k, v)  == [k |-> k, v |-> v]
NoData      == Data("absent", <<>>)
LlmData     == Data("llm", <<>>)

Axis(data) == [data |-> data]

\* option["xAxis"]: no such key ("absent"), an object ("dict"), a list of
\* objects ("list") or a non-empty list of strings ("strlist").
XAxis(k, v) == [k |-> k, v |-> v]
XAxes ==
    {XAxis("absent", <<>>), XAxis("dict", <<Axis(NoData)>>),
     XAxis("strlist", <<>>)}
    \cup {XAxis("list", v) : v \in SeqsUpTo({Axis(NoData)}, 2)}

\* An entry of option["series"].
SeriesItem(type, has_name, name, data) ==
    [type |-> type, has_name |-> has_name, name |-> name, data |-> data]

SeriesItems ==
    {SeriesItem(ty, FALSE, "", LlmData) : ty \in {"bar", "pie"}}
    \cup {SeriesItem(ty, TRUE, "named", LlmData) : ty \in {"bar", "pie"}}

\* option["series"]: no such key ("absent") or a list of entries.
Series(k, v) == [k |-> k, v |-> v]
SeriesLists ==
    {Series("absent", <<>>)}
    \cup {Series("list", v) : v \in SeqsUpTo(SeriesItems, MaxSeries)}

Option(xAxis, series) == [xAxis |-> xAxis, series |-> series]
Options == {Option(x, ss) : x \in XAxes, ss \in SeriesLists}

\* to_echarts_data: categories, and series as the list of its keys and the
\* list of its values; has_series is whether the key "series" is there.
to_echarts_data(result) ==
    IF result.rows = <<>>
    THEN [categories |-> <<>>, has_series |-> FALSE,
          series_keys |-> <<>>, series_values |-> <<>>]
    ELSE [categories |-> [i \in DOMAIN result.rows |-> str(result.rows[i][1])],
          has_series |-> TRUE,
          series_keys |-> Tail(result.columns),
          series_values |->
              [j \in 1..(Len(result.columns) - 1) |->
                  [i \in DOMAIN result.rows |-> result.rows[i][j + 1]]]]

\* echarts_data.get("series"), as a truth value
GetSeries(echarts_data) ==
    echarts_data.has_series /\ echarts_data.series_keys # <<>>

\* the xAxis part of _fill_echarts_data
FillXAxis(xAxis, echarts_data) ==
    IF xAxis.k = "dict" \/ (xAxis.k = "list" /\ xAxis.v # <<>>)
    THEN [xAxis EXCEPT !.v[1].data = Data("cells", echarts_data.categories)]
    ELSE xAxis

\* the first loop over option["series"]
FillSeriesItem(series_item, i, echarts_data) ==
    IF i <= Len(echarts_data.series_values)
    THEN [series_item EXCEPT
             !.data = Data("cells", echarts_data.series_values[i]),
             !.has_name = TRUE,
             !.name = IF series_item.has_name THEN @
                      ELSE echarts_data.series_keys[i]]
    ELSE series_item

\* zip(categories, values), the pairs with a None value left out
RECURSIVE PiePairs(_, _)
PiePairs(categories, values) ==
    IF categories = <<>> \/ values = <<>> THEN <<>>
    ELSE (IF Head(values) # Null
          THEN <<[name |-> Head(categories), value |-> Head(values)]>>
          ELSE <<>>)
         \o PiePairs(Tail(categories), Tail(values))

\* the second loop over option["series"]
FillPieItem(series_item, echarts_data) ==
    IF series_item.type = "pie" /\ GetSeries(echarts_data)
    THEN [series_item EXCEPT
             !.data = Data("pairs", PiePairs(echarts_data.categories,
                                             echarts_data.series_values[1]))]
    ELSE series_item

FillSeries(series, echarts_data) ==
    IF series.k = "absent" THEN series
    ELSE LET first ==
                 IF GetSeries(echarts_data)
                 THEN [i \in DOMAIN series.v |->
                          FillSeriesItem(series.v[i], i, echarts_data)]
                 ELSE series.v
         IN  Series("list",
                    [i \in DOMAIN first |-> FillPieItem(first[i], echarts_data)])

Filled(status, option) == [status |-> status, option |-> option]
NoOption  == Option(XAxis("absent", <<>>), Series("absent", <<>>))
NoResult  == QueryResult(<<>>, <<>>, 0)
NotFilled == Filled("not_called", NoOption)

\* _fill_echarts_data(option, result): the option it returns, or the
\* exception of the item assignment on a string of an xAxis list.
_fill_echarts_data(option, result) ==
    LET echarts_data == to_echarts_data(result)
    IN  IF option.xAxis.k = "strlist"
        THEN Filled("raised", option)
        ELSE Filled("returned",
                    Option(FillXAxis(option.xAxis, echarts_data),
                           FillSeries(option.series, echarts_data)))

----------------------------------------------------------------------------
(* SQLExecutor.execute                                                     *)

\* The classes of the values a driver hands over, None apart: the four
\* that pass unchanged, Decimal, datetime, date, and "other" for the rest
\* (time, bytes, UUID, list, ...).
DbTypes == {"int", "float", "str", "bool", "Decimal", "datetime", "date", "other"}

DbValue(t, v) == [t |-> t, v |-> v]

SerializeKeepsOther(value) ==
    IF value.t = "null" THEN Null
    ELSE IF value.t \in {"int", "float", "str", "bool"} THEN value
    ELSE IF value.t = "Decimal" THEN DbValue("float", value.v)
    ELSE IF value.t \in {"datetime", "date"} THEN Text(value.v)
    ELSE value

\* _serialize_value
_serialize_value(value) ==
    IF value.t = "null" THEN Null
    ELSE IF value.t \in {"int", "float", "str", "bool"} THEN value
    ELSE IF value.t = "Decimal" THEN DbValue("float", value.v)   \* float(value)
    ELSE IF value.t \in {"datetime", "date"} THEN Text(value.v)   \* isoformat()
    ELSE Text(value.v)                                            \* str(value)

\* What session.execute gives: an exception ("raises"), or the keys and the
\* rows of the result ("rows").
DriverRaises == [status |-> "raises", columns |-> <<>>, rows |-> <<>>]
DriverRows(columns, rows) == [status |-> "rows", columns |-> columns, rows |-> rows]

\* The result with m rows whose column j holds values of class types[j],
\* with None in the first column of the rows of nulls.
MkDriverRows(types, m, nulls) ==
    DriverRows(
        [j \in DOMAIN types |-> ColumnName(j)],
        [i \in 1..m |->
            [j \in DOMAIN types |->
                IF j = 1 /\ i \in nulls THEN Null
                ELSE DbValue(types[j], ToString(10 * i + j))]])

DriverResults ==
    {DriverRaises}
    \cup UNION {{MkDriverRows(types, m, nulls) :
                    types \in [1..n -> DbTypes], nulls \in SUBSET (1..m)} :
                n \in 1..MaxCols, m \in 0..MaxFillRows}

Executed(status, result) == [status |-> status, result |-> result]
NotExecuted == Executed("not_called", NoResult)
NoDriverResult == DriverRows(<<>>, <<>>)

\* SQLExecutor.execute(session, sql): the QueryResult it returns, or the
\* driver's exception re-raised.
execute(driver) ==
    IF driver.status = "raises" THEN Executed("raised", NoResult)
    ELSE LET columns == driver.columns
             rows == [i \in DOMAIN driver.rows |->
                         [j \in DOMAIN driver.rows[i] |->
                             _serialize_value(driver.rows[i][j])]]
         IN  Executed("returned", QueryResult(columns, rows, Len(rows)))

----------------------------------------------------------------------------
(* LLMEngine._parse_response                                               *)

\* A response body is a sequence of tokens: whitespace, a ``` fence, the
\* word json, the braces, the JSON texts null and 1, the inside of a JSON
\* object ("k": "v"), and any other text.
Tokens == {"ws", "fence", "json", "lb", "rb", "null", "num", "pair", "text"}

Bodies == UNION {[1..n -> Tokens] : n \in 0..MaxBody}

\* The JSON texts over these tokens: null, 1, {} and {"k": "v"}.
JsonValues == {<<"null">>, <<"num">>, <<"lb", "rb">>, <<"lb", "pair", "rb">>}

JsonFail == [ok |-> FALSE, value |-> <<>>]

\* json.loads(text): whitespace around the tokens of a JSON text is
\* skipped; anything else raises JSONDecodeError.  The value is written as
\* the JSON text without whitespace.
json_loads(text) ==
    LET t == SelectSeq(text, LAMBDA x : x # "ws")
    IN  IF t \in JsonValues THEN [ok |-> TRUE, value |-> t] ELSE JsonFail

\* Python's None: what json.loads gives for null, and what
\* _parse_response returns when it falls through.
None == <<"null">>

Least(S)    == CHOOSE i \in S : \A j \in S : i <= j
Greatest(S) == CHOOSE i \in S : \A j \in S : j <= i

Positions(text, tok) == {i \in DOMAIN text : text[i] = tok}

NoMatch == [found |-> FALSE, group |-> <<>>]

RECURSIVE SkipWs(_, _)
SkipWs(text, i) ==
    IF i <= Len(text) /\ text[i] = "ws" THEN SkipWs(text, i + 1) ELSE i

\* re.search(r'```(?:json)?\s*\n?(.*?)\n?```', content, re.DOTALL): the
\* leftmost match opens at the first fence, provided another fence
\* follows; the tag json and the whitespace after the fence are consumed,
\* and group 1 runs up to the next fence, less one trailing newline.
re_search(content) ==
    LET fences == Positions(content, "fence")
    IN  IF Cardinality(fences) < 2 THEN NoMatch
        ELSE LET open  == Least(fences)
                 close == Least(fences \ {open})
                 tag   == IF content[open + 1] = "json" THEN open + 2 ELSE open + 1
                 start == SkipWs(content, tag)
                 stop  == IF close - 1 >= start /\ content[close - 1] = "ws"
                          THEN close - 2 ELSE close - 1
             IN  [found |-> TRUE, group |-> SubSeq(content, start, stop)]

\* content[brace_start:brace_end + 1] when both braces are found and
\* brace_end > brace_start.
BraceBlock(content) ==
    LET lbs == Positions(content, "lb")
        rbs == Positions(content, "rb")
    IN  IF lbs # {} /\ rbs # {} /\ Greatest(rbs) > Least(lbs)
        THEN [found |-> TRUE, group |-> SubSeq(content, Least(lbs), Greatest(rbs))]
        ELSE NoMatch

ParseResponseBraceFirst(content) ==
    LET whole == json_loads(content)
        block == re_search(content)
        brace == BraceBlock(content)
    IN  IF whole.ok THEN whole.value
        ELSE IF brace.found /\ json_loads(brace.group).ok
             THEN json_loads(brace.group).value
        ELSE IF block.found /\ json_loads(block.group).ok
             THEN json_loads(block.group).value
        ELSE None

_parse_response(content) ==
    LET whole == json_loads(content)
        block == re_search(content)
        brace == BraceBlock(content)
    IN  IF whole.ok THEN whole.value
        ELSE IF block.found /\ json_loads(block.group).ok
             THEN json_loads(block.group).value
        ELSE IF brace.found /\ json_loads(brace.group).ok
             THEN json_loads(brace.group).value
        ELSE None

Parsed(value) == [called |-> TRUE, value |-> value]
NotParsed     == [called |-> FALSE, value |-> <<>>]

----------------------------------------------------------------------------
(* Initial values                                                          *)

FwIdle ==
    /\ fw_sql = SqlEmpty
    /\ fw_result = NotCalled

ParseIdle ==
    /\ body = <<>>
    /\ parse_out = NotParsed

StreamIdle ==
    /\ llm_stream = [r \in Runs |-> <<>>]
    /\ pulled = [r \in Runs |-> <<>>]
    /\ full_content = [r \in Runs |-> ""]

IndexIdle ==
    /\ collection = [r \in Runs |-> FirstCollection]
    /\ schema_context = [r \in Runs |-> NoContext]
    /\ refresh = "idle"
    /\ refreshed = <<>>

IndexBuilt ==
    /\ chroma = Store(FirstCollection, BuiltCount)
    /\ IndexIdle

FillIdle ==
    /\ fill_option = NoOption
    /\ fill_result = NoResult
    /\ fill_out = NotFilled

ExeIdle ==
    /\ driver_result = NoDriverResult
    /\ execute_out = NotExecuted

LimitersWith(cap) ==
    /\ clock = 0
    /\ max_rpm = [l \in LimiterIds |-> cap]
    /\ _request_timestamps = [l \in LimiterIds |-> NoTimestamps]
    /\ calls = <<>>

\* _build_state_machine passes settings.SQL_MAX_RETRIES, 3 unless the
\* environment sets another value.
RetriesDefault == max_retries = SQL_MAX_RETRIES

RunsNew ==
    /\ pc = [r \in Runs |-> "new"]
    /\ events = [r \in Runs |-> <<>>]
    /\ client_id = [r \in Runs |-> "default"]
    /\ llm_parsed = [r \in Runs |-> Pending]
    /\ full_thinking = [r \in Runs |-> ""]
    /\ sql = [r \in Runs |-> SqlEmpty]
    /\ viz_config = [r \in Runs |-> ""]
    /\ chart_type = [r \in Runs |-> "bar"]
    /\ attempt = [r \in Runs |-> 0]
    /\ safe_sql = [r \in Runs |-> NoSafeSql]
    /\ exec = [r \in Runs |-> "none"]
    /\ deadline = [r \in Runs |-> "unarmed"]
    /\ called = [r \in Runs |-> {}]
    /\ executed = [r \in Runs |-> <<>>]
    /\ validated = [r \in Runs |-> <<>>]

----------------------------------------------------------------------------
(* Specification of the firewall alone: any sql, one call of validate.     *)

InitFirewall ==
    /\ fw_sql \in SqlInputs
    /\ fw_result = NotCalled
    /\ LimitersWith(ROUTE_MAX_RPM)
    /\ RunsNew
    /\ FillIdle
    /\ ExeIdle
    /\ ParseIdle
    /\ StreamIdle
    /\ IndexBuilt
    /\ RetriesDefault

Validate ==
    /\ fw_result = NotCalled
    /\ fw_result' = validate(fw_sql)
    /\ UNCHANGED <<cfgvars, idxvars, strvars, parsevars, fw_sql, limvars, runvars, fillvars, exevars>>

NextFirewall == Validate

SpecFirewall == InitFirewall /\ [][NextFirewall]_vars

----------------------------------------------------------------------------
(* Specification of _fill_echarts_data alone: any option, any result.      *)

InitFill ==
    /\ FwIdle
    /\ LimitersWith(ROUTE_MAX_RPM)
    /\ RunsNew
    /\ fill_option \in Options
    /\ fill_result \in Results
    /\ fill_out = NotFilled
    /\ ExeIdle
    /\ ParseIdle
    /\ StreamIdle
    /\ IndexBuilt
    /\ RetriesDefault

Fill ==
    /\ fill_out = NotFilled
    /\ fill_out' = _fill_echarts_data(fill_option, fill_result)
    /\ UNCHANGED <<cfgvars, idxvars, strvars, parsevars, fill_option, fill_result, fwvars, limvars, runvars, exevars>>

NextFill == Fill

SpecFill == InitFill /\ [][NextFill]_vars

----------------------------------------------------------------------------
(* Specification of SQLExecutor.execute alone: any outcome of the driver.  *)

InitExecute ==
    /\ FwIdle
    /\ LimitersWith(ROUTE_MAX_RPM)
    /\ RunsNew
    /\ FillIdle
    /\ driver_result \in DriverResults
    /\ execute_out = NotExecuted
    /\ ParseIdle
    /\ StreamIdle
    /\ IndexBuilt
    /\ RetriesDefault

Execute ==
    /\ execute_out = NotExecuted
    /\ execute_out' = execute(driver_result)
    /\ UNCHANGED <<cfgvars, idxvars, strvars, parsevars, driver_result, fwvars, limvars, runvars, fillvars>>

NextExecute == Execute

SpecExecute == InitExecute /\ [][NextExecute]_vars

----------------------------------------------------------------------------
(* Specification of LLMEngine._parse_response alone: any body.             *)

InitParse ==
    /\ FwIdle
    /\ LimitersWith(ROUTE_MAX_RPM)
    /\ RunsNew
    /\ FillIdle
    /\ ExeIdle
    /\ body \in Bodies
    /\ parse_out = NotParsed
    /\ StreamIdle
    /\ IndexBuilt
    /\ RetriesDefault

ParseResponse ==
    /\ parse_out = NotParsed
    /\ parse_out' = Parsed(_parse_response(body))
    /\ UNCHANGED <<cfgvars, idxvars, strvars, body, fwvars, limvars, runvars, fillvars, exevars>>

NextParse == ParseResponse

SpecParse == InitParse /\ [][NextParse]_vars

----------------------------------------------------------------------------
(* Specification of one QueryLimiter called directly.                      *)

InitLimiter ==
    /\ FwIdle
    /\ \E cap \in 1..MaxRpm : LimitersWith(cap)
    /\ RunsNew
    /\ FillIdle
    /\ ExeIdle
    /\ ParseIdle
    /\ StreamIdle
    /\ IndexBuilt
    /\ RetriesDefault

NextLimiter ==
    \/ Tick
    \/ \E c \in Clients : CallCheckRateLimit(c)

SpecLimiter == InitLimiter /\ [][NextLimiter]_vars

----------------------------------------------------------------------------
(* Specification of one QueryStateMachine on which run() is called         *)
(* MaxRuns times, the runs interleaving at their suspension points.  The   *)
(* runs are admitted at one clock reading; SpecLimiter has the clock move. *)

InitMachine ==
    /\ FwIdle
    /\ \E cap \in 1..MaxRpm : LimitersWith(cap)
    /\ RunsNew
    /\ FillIdle
    /\ ExeIdle
    /\ ParseIdle
    /\ StreamIdle
    /\ IndexBuilt
    /\ RetriesDefault

NextMachine ==
    \/ \E r \in Runs : StartRun(r)
    \/ \E r \in Runs : RunStep(r)

SpecMachine == InitMachine /\ [][NextMachine]_vars

----------------------------------------------------------------------------
(* Specification of one QueryStateMachine whose runs can be cancelled at   *)
(* any of their suspension points.                                         *)

NextCancel ==
    \/ \E r \in Runs : StartRun(r)
    \/ \E r \in Runs : RunStep(r)
    \/ \E r \in Runs : Cancel(r)

SpecCancel == InitMachine /\ [][NextCancel]_vars

----------------------------------------------------------------------------
(* Specification of one QueryStateMachine over time: the runs of           *)
(* SpecMachine, and the clock moves between requests, once a run is over   *)
(* and while none is in flight.                                            *)

TickBetweenRuns ==
    /\ \A r \in Runs : pc[r] \in {"new", "end", "raised"}
    /\ \E r \in Runs : pc[r] # "new"
    /\ Tick

NextTimed ==
    \/ \E r \in Runs : StartRun(r)
    \/ \E r \in Runs : RunStep(r)
    \/ TickBetweenRuns

SpecTimed == InitMachine /\ [][NextTimed]_vars

----------------------------------------------------------------------------
(* Specification of the runs of machines built with any max_retries, zero  *)
(* and less included.                                                      *)

RetriesValues == -1..MaxRetries

InitRetries ==
    /\ FwIdle
    /\ LimitersWith(MaxRpm)
    /\ RunsNew
    /\ FillIdle
    /\ ExeIdle
    /\ ParseIdle
    /\ StreamIdle
    /\ IndexBuilt
    /\ max_retries \in RetriesValues

NextRetries ==
    \/ \E r \in Runs : StartRun(r)
    \/ \E r \in Runs : RunStep(r)
    \/ \E r \in Runs : ValidationSkipped(r)

SpecRetries == InitRetries /\ [][NextRetries]_vars

----------------------------------------------------------------------------
(* Specification of the LLM stage of the runs of one QueryStateMachine,    *)
(* chunk by chunk, for any response streams.                               *)

InitStream ==
    /\ FwIdle
    /\ LimitersWith(ROUTE_MAX_RPM)
    /\ RunsNew
    /\ FillIdle
    /\ ExeIdle
    /\ ParseIdle
    /\ llm_stream \in [Runs -> Streams]
    /\ pulled = [r \in Runs |-> <<>>]
    /\ full_content = [r \in Runs |-> ""]
    /\ IndexBuilt
    /\ RetriesDefault

NextStream ==
    \/ \E r \in Runs : StartRun(r)
    \/ \E r \in Runs : RetrieveSchema(r)
    \/ \E r \in Runs : PullChunk(r)
    \/ \E r \in Runs : ResumeStream(r)
    \/ \E r \in Runs : LLMFail(r)
    \/ \E r \in Runs : StreamEnd(r)

SpecStream == InitStream /\ [][NextStream]_vars

----------------------------------------------------------------------------
(* Specification of the schema index: requests at POST /api/query, up to   *)
(* the end of their LLM stage, while POST /api/schema/refresh is called,   *)
(* one call at a time; the startup build found tables or none.             *)

InitIndex ==
    /\ FwIdle
    /\ LimitersWith(ROUTE_MAX_RPM)
    /\ RunsNew
    /\ FillIdle
    /\ ExeIdle
    /\ ParseIdle
    /\ StreamIdle
    /\ chroma \in {Store(FirstCollection, n) : n \in {0} \cup TableCounts}
    /\ IndexIdle
    /\ RetriesDefault

NextIndex ==
    \/ \E r \in Runs : RouteRequest(r)
    \/ \E r \in Runs : RetrieveSchema(r)
    \/ \E r \in Runs : LLMFail(r)
    \/ \E r \in Runs : LLMEnd(r)
    \/ RefreshReset
    \/ RefreshBuild

SpecIndex == InitIndex /\ [][NextIndex]_vars

----------------------------------------------------------------------------
(* Specification of the service: requests arrive at POST /api/query.       *)

Init ==
    /\ FwIdle
    /\ LimitersWith(ROUTE_MAX_RPM)
    /\ RunsNew
    /\ FillIdle
    /\ ExeIdle
    /\ ParseIdle
    /\ StreamIdle
    /\ IndexBuilt
    /\ RetriesDefault

Next ==
    \/ \E r \in Runs : RouteRequest(r)
    \/ \E r \in Runs : RunStep(r)

Spec == Init /\ [][Next]_vars

----------------------------------------------------------------------------
(* Properties                                                              *)

FirewallCodes ==
    {"EMPTY_SQL", "PARSE_ERROR", "BLOCKED_STATEMENT", "NON_SELECT",
     "BLOCKED_SUBQUERY", "BLOCKED_FUNCTION"}

\* The statements of a list the loop of validate gets to keep.
Kept(sql_text) ==
    SelectSeq(Parse(StripSemicolons(sql_text.segs)), LAMBDA st : st # NoneStmt)

Accepted == fw_result.ok /\ fw_sql.kind = "list"

\* C1: validate either raises an error with one of the firewall's codes or
\* returns a text all of whose top-level statements are SELECTs, also for a
\* semicolon-separated list that mixes SELECTs and other statements.
C1_OnlySelectsReturned ==
    fw_result # NotCalled =>
        IF fw_result.ok
        THEN \A i \in DOMAIN fw_result.stmts : fw_result.stmts[i].type = "Select"
        ELSE fw_result.code \in FirewallCodes

C1_MixedListRefused ==
    /\ fw_sql.kind = "list"
    /\ \E i, j \in DOMAIN fw_sql.segs :
          /\ fw_sql.segs[i].type = "Select"
          /\ fw_sql.segs[j].type \in BLOCKED_STATEMENT_TYPES
    /\ fw_result.code = "BLOCKED_STATEMENT"

\* C2: every accepted SELECT whose own (outermost) LIMIT is absent comes
\* back with the outermost LIMIT max_rows, whatever LIMITs its nested
\* queries have.
C2_MissingLimitAdded ==
    Accepted =>
        \A i \in DOMAIN Kept(fw_sql) :
            Kept(fw_sql)[i].limit.k = "none" =>
                fw_result.stmts[i].limit = LitLimit(max_rows)

\* C3: every accepted SELECT whose LIMIT is an integer literal above
\* max_rows comes back with the LIMIT max_rows.
C3_ExcessiveLimitCapped ==
    Accepted =>
        \A i \in DOMAIN Kept(fw_sql) :
            (Kept(fw_sql)[i].limit.k = "lit" /\ Kept(fw_sql)[i].limit.v > max_rows) =>
                fw_result.stmts[i].limit = LitLimit(max_rows)

C3_ExcessiveLimitSeen ==
    /\ Accepted
    /\ \E i \in DOMAIN Kept(fw_sql) :
          /\ Kept(fw_sql)[i].limit = LitLimit(SQL_MAX_ROWS + 1)
          /\ Kept(fw_sql)[i].nested # <<>>
          /\ fw_result.stmts[i].limit = LitLimit(max_rows)

Range(seq) == {seq[i] : i \in DOMAIN seq}

HasEvent(r, type) == \E i \in DOMAIN events[r] : events[r][i].event = type
HasError(r, code) == \E i \in DOMAIN events[r] : events[r][i] = ErrorEv(code)
LastEvent(r)      == events[r][Len(events[r])]

\* C4: in every run an error event is the last event of the run, hence
\* there is at most one, and the run is over once it is emitted.
C4_ErrorIsLast ==
    \A r \in Runs :
        \A i \in DOMAIN events[r] :
            events[r][i].event = "error" =>
                i = Len(events[r]) /\ pc[r] = "end"

C4_ErrorAfterRetries ==
    \E r \in Runs :
        /\ Len(events[r]) >= 3
        /\ LastEvent(r) = ErrorEv("BLOCKED_STATEMENT")
        /\ events[r][Len(events[r]) - 1] = Ev("thought", "retry", FALSE)

\* C5: done is emitted only after the executor returned, it is the last
\* event, and right before it come data, chart_type, viz_config (when
\* present) and state{completed}, in this order; in every run data comes
\* before chart_type and chart_type before viz_config.
C5_DoneClosesSuccess ==
    \A r \in Runs :
        LET es == events[r]
            n  == Len(es)
        IN  /\ HasEvent(r, "done") =>
                 /\ exec[r] = "returned"
                 /\ es[n].event = "done"
                 /\ es[n - 1] = StateEv("completed")
                 /\ \/ /\ es[n - 2].event = "viz_config"
                       /\ es[n - 3].event = "chart_type"
                       /\ es[n - 4].event = "data"
                    \/ /\ es[n - 2].event = "chart_type"
                       /\ es[n - 3].event = "data"
            /\ \A i \in DOMAIN es :
                 /\ es[i].event = "chart_type" =>
                       \E j \in 1..(i - 1) : es[j].event = "data"
                 /\ es[i].event = "viz_config" =>
                       \E j \in 1..(i - 1) : es[j].event = "chart_type"
                 /\ es[i].event = "data" =>
                       \A j \in 1..i : es[j].event \notin {"chart_type", "viz_config"}
                 /\ es[i].event = "chart_type" =>
                       \A j \in 1..i : es[j].event # "viz_config"

C5_DoneWithVizConfig ==
    \E r \in Runs :
        /\ pc[r] = "end"
        /\ LastEvent(r).event = "done"
        /\ HasEvent(r, "viz_config")

\* The admitted calls of client c on limiter lim with a timestamp in
\* (lo, hi].
AdmittedIn(lim, c, lo, hi) ==
    {i \in DOMAIN calls :
        /\ calls[i].lim = lim /\ calls[i].client = c /\ calls[i].admitted
        /\ lo < calls[i].t /\ calls[i].t <= hi}

\* The admitted calls before call i that call i has to count: same limiter
\* and client, less than 60 seconds old.
CountedBy(i) ==
    {j \in 1..(i - 1) :
        /\ calls[j].lim = calls[i].lim /\ calls[j].client = calls[i].client
        /\ calls[j].admitted
        /\ calls[j].t > calls[i].t - WINDOW}

\* C6: on one limiter, for each client and each t, at most max_rpm admitted
\* calls have a timestamp in (t - 60, t]; a call is admitted exactly when
\* fewer than max_rpm earlier admitted calls are less than 60 seconds old,
\* a timestamp exactly 60 seconds old counting as expired.
C6_SlidingWindow ==
    /\ \A c \in Clients : \A t \in 0..MaxClock :
          Cardinality(AdmittedIn(0, c, t - WINDOW, t)) <= max_rpm[0]
    /\ \A i \in DOMAIN calls :
          calls[i].admitted <=> Cardinality(CountedBy(i)) < max_rpm[0]

C6_AdmittedAtBoundary ==
    \E i \in DOMAIN calls :
        /\ calls[i].admitted
        /\ Cardinality({j \in 1..(i - 1) :
              /\ calls[j].client = calls[i].client /\ calls[j].admitted
              /\ calls[j].t >= calls[i].t - WINDOW}) >= max_rpm[0]
        /\ \E j \in 1..(i - 1) :
              /\ calls[j].client = calls[i].client /\ calls[j].admitted
              /\ calls[j].t = calls[i].t - WINDOW

Callers      == {r \in Runs : "limiter" \in called[r]}
AdmittedRuns == {r \in Runs : \E i \in DOMAIN calls : calls[i].run = r /\ calls[i].admitted}
RefusedRuns  == {r \in Runs : \E i \in DOMAIN calls : calls[i].run = r /\ ~calls[i].admitted}

Min(a, b) == IF a < b THEN a ELSE b

\* C7: when the runs of one state machine call check_rate_limit with the
\* same client id concurrently, the number admitted never exceeds the cap
\* and equals the cap as soon as that many have called.
C7_AtomicAdmission ==
    Cardinality(AdmittedRuns) = Min(max_rpm[0], Cardinality(Callers))

C7_MoreCallersThanCap ==
    /\ Cardinality(Callers) > max_rpm[0]
    /\ Cardinality(AdmittedRuns) = max_rpm[0]
    /\ \E r \in AdmittedRuns : pc[r] \notin {"end", "raised"}

\* C8: the runs started through the query route consult one per-client
\* timestamp map: each rate check finds the timestamps of all the requests
\* admitted less than 60 seconds before it, so that at most the cap are
\* admitted within 60 seconds.
C8_RouteSharesRateState ==
    /\ \A i \in DOMAIN calls :
          calls[i].seen =
             Cardinality({j \in 1..(i - 1) :
                 /\ calls[j].client = calls[i].client /\ calls[j].admitted
                 /\ calls[j].t > calls[i].t - WINDOW})
    /\ \A c \in Clients :
          Cardinality({i \in DOMAIN calls :
              /\ calls[i].client = c /\ calls[i].admitted
              /\ calls[i].t > clock - WINDOW}) <= ROUTE_MAX_RPM

\* C9: a run that check_rate_limit refuses emits the one event
\* error{RATE_LIMIT}, no state event, and calls neither the retriever, the
\* LLM, the firewall nor the executor.
C9_RefusedRunEmitsOnlyError ==
    \A r \in RefusedRuns :
        /\ events[r] = <<ErrorEv("RATE_LIMIT")>>
        /\ called[r] = {"limiter"}
        /\ pc[r] = "end"

C9_RunRefused ==
    \E r \in RefusedRuns :
        /\ HasError(r, "RATE_LIMIT")
        /\ \E q \in AdmittedRuns : HasEvent(q, "done")

\* C10: when the deadline fires while the executor runs, the executor is
\* cancelled and the run ends with error{QUERY_TIMEOUT} as its last event,
\* without data, chart_type, viz_config or done; no run has both a data
\* event and a QUERY_TIMEOUT error.
C10_TimeoutCancelsAndEnds ==
    \A r \in Runs :
        /\ deadline[r] = "fired" =>
              /\ exec[r] = "cancelled"
              /\ pc[r] = "end"
              /\ LastEvent(r) = ErrorEv("QUERY_TIMEOUT")
              /\ \A i \in DOMAIN events[r] :
                    events[r][i].event \notin {"data", "chart_type", "viz_config", "done"}
        /\ ~(HasEvent(r, "data") /\ HasError(r, "QUERY_TIMEOUT"))

C10_DeadlineFired ==
    \E r \in Runs :
        /\ deadline[r] = "fired"
        /\ exec[r] = "cancelled"
        /\ HasError(r, "QUERY_TIMEOUT")

\* C11: in every run the executor is called at most once, only after
\* validate returned in that run and only with the text validate returned,
\* never the sql of the LLM; when the sql of the envelope is empty, neither
\* the firewall nor the executor is called and the run ends with
\* error{NO_SQL}.
C11_ExecutorGetsValidatedSql ==
    \A r \in Runs :
        /\ Len(executed[r]) <= 1
        /\ ("executor" \in called[r]) <=> (executed[r] # <<>>)
        /\ executed[r] # <<>> =>
              /\ "firewall" \in called[r]
              /\ validate(sql[r]).ok
              /\ safe_sql[r].valid
              /\ executed[r][1] = JoinSql(validate(sql[r]).stmts)
        /\ (llm_parsed[r].kind = "dict" /\ llm_parsed[r].sql = SqlEmpty) =>
              /\ called[r] \cap {"firewall", "executor"} = {}
              /\ pc[r] = "end" => LastEvent(r) = ErrorEv("NO_SQL")

C11_ExecutedAndNoSql ==
    \E r, q \in Runs :
        /\ executed[r] # <<>>
        /\ executed[r][1] # sql[r]
        /\ HasEvent(r, "done")
        /\ llm_parsed[q].kind = "dict" /\ llm_parsed[q].sql = SqlEmpty
        /\ HasError(q, "NO_SQL")

\* The nested queries of a statement whose root is a mutating statement.
MutatingNested(statement) ==
    {i \in DOMAIN statement.nested :
        statement.nested[i].root \in BLOCKED_STATEMENT_TYPES}

\* C12: for every input with a SELECT that has, anywhere below it (derived
\* table, IN subquery, CTE body), a nested query whose root is a mutating
\* statement, validate returns no SQL, and raises BLOCKED_SUBQUERY when that
\* SELECT is the only statement.
C12_NestedMutationBlocked ==
    (fw_result # NotCalled /\ fw_sql.kind = "list") =>
        \A i \in DOMAIN Kept(fw_sql) :
            MutatingNested(Kept(fw_sql)[i]) # {} =>
                /\ ~fw_result.ok
                /\ Len(Kept(fw_sql)) = 1 => fw_result.code = "BLOCKED_SUBQUERY"

\* The function calls of a statement whose name is on the blocklist, in any
\* letter case.
BlockedCalls(statement) ==
    {f \in statement.funcs : Lower(f.name) \in BLOCKED_FUNCTIONS}

\* C13 as stated: every SELECT with a call of a blocklisted function, in
\* any letter case, is refused with BLOCKED_FUNCTION.
C13_BlockedFunctionRaises ==
    (fw_result # NotCalled /\ fw_sql.kind = "list" /\ Len(Kept(fw_sql)) = 1) =>
        LET statement == Kept(fw_sql)[1]
        IN  (statement.type = "Select" /\ BlockedCalls(statement) # {}) =>
                fw_result = Raise("BLOCKED_FUNCTION")

\* C13 as amended: such a SELECT is always refused, with BLOCKED_SUBQUERY
\* when a subquery of it has a mutating root (that check comes first) and
\* with BLOCKED_FUNCTION otherwise.
C13_BlockedFunctionRefused ==
    (fw_result # NotCalled /\ fw_sql.kind = "list" /\ Len(Kept(fw_sql)) = 1) =>
        LET statement == Kept(fw_sql)[1]
            mutating_subquery ==
                \E i \in MutatingNested(statement) :
                    statement.nested[i].wrap = "Subquery"
        IN  (statement.type = "Select" /\ BlockedCalls(statement) # {}) =>
                fw_result = Raise(IF mutating_subquery THEN "BLOCKED_SUBQUERY"
                                  ELSE "BLOCKED_FUNCTION")

C13_UpperCaseCallRefused ==
    /\ fw_sql.kind = "list" /\ Len(fw_sql.segs) = 1
    /\ AnonFunc("PG_SLEEP") \in fw_sql.segs[1].funcs
    /\ Len(fw_sql.segs[1].nested) = MaxNested
    /\ fw_result = Raise("BLOCKED_FUNCTION")

\* C14: the first statement of the list is refused with BLOCKED_STATEMENT
\* when it is a mutating statement and with NON_SELECT when it is neither
\* mutating nor a SELECT of any form; a SELECT of any form (a plain SELECT, a
\* SELECT with a CTE, a set operation of SELECTs) is refused with neither
\* code.
C14_StatementCategories ==
    (fw_result # NotCalled /\ fw_sql.kind = "list" /\ Kept(fw_sql) # <<>>) =>
        LET statement == Kept(fw_sql)[1]
        IN  /\ statement.type \in BLOCKED_STATEMENT_TYPES =>
                  fw_result = Raise("BLOCKED_STATEMENT")
            /\ statement.type = "Other" => fw_result = Raise("NON_SELECT")
            /\ (statement.type \in {"Select", "Union"} /\ Len(Kept(fw_sql)) = 1) =>
                  fw_result.code \notin {"BLOCKED_STATEMENT", "NON_SELECT"}

\* C15: validate changes the LIMIT of an accepted SELECT only when it is
\* absent or an integer literal above max_rows: a literal of at most
\* max_rows and a non-literal expression come back unchanged, and so does
\* everything else of the statement.
C15_LimitFrame ==
    Accepted =>
        \A i \in DOMAIN Kept(fw_sql) :
            LET given    == Kept(fw_sql)[i]
                returned == fw_result.stmts[i]
            IN  /\ (\/ given.limit.k = "expr"
                    \/ given.limit.k = "lit" /\ given.limit.v <= max_rows) =>
                      returned = given
                /\ returned.limit # given.limit =>
                      \/ given.limit.k = "none"
                      \/ given.limit.k = "lit" /\ given.limit.v > max_rows
                /\ returned = [given EXCEPT !.limit = returned.limit]

C15_ExpressionLimitKept ==
    /\ Accepted
    /\ Len(Kept(fw_sql)) = 1
    /\ Kept(fw_sql)[1].limit = ExprLimit
    /\ \E i \in DOMAIN Kept(fw_sql)[1].nested :
          Kept(fw_sql)[1].nested[i].limit = LitLimit(SQL_MAX_ROWS + 1)
    /\ fw_result.stmts = Kept(fw_sql)

\* C16: whenever validate returns, validate of the returned text returns
\* too, and returns that same text.
C16_FixedPoint ==
    fw_result.ok => validate(JoinSql(fw_result.stmts)) = fw_result

\* C17: the chart_type event of a run carries the chart_type of the LLM
\* envelope when that is bar, line or pie, and bar when it is absent or
\* anything else.
C17_ChartTypeFromEnvelope ==
    \A r \in Runs :
        \A i \in DOMAIN events[r] :
            events[r][i].event = "chart_type" =>
                events[r][i].arg =
                    IF llm_parsed[r].chart_type \in {"bar", "line", "pie"}
                    THEN llm_parsed[r].chart_type
                    ELSE "bar"

\* The stringified cells of the first column and the cells of the j-th
\* remaining column of a result, in row order.
FirstColumnTexts(result) ==
    [i \in DOMAIN result.rows |-> str(result.rows[i][1])]

RemainingColumn(result, j) ==
    [i \in DOMAIN result.rows |-> result.rows[i][j + 1]]

\* C18: for every result, also one without rows, and every option that
\* _fill_echarts_data returns: the data of xAxis (of the first entry only
\* when xAxis is a list) is the stringified first column in row order; for
\* every i below both the number of series and the number of remaining
\* columns the data of series i is the i-th remaining column in row order
\* (C19 has the data of a pie series) and a series without a name has the
\* name of that column.
C18_FilledFromResult ==
    fill_out.status = "returned" =>
        LET given  == fill_option
            filled == fill_out.option
        IN  /\ (given.xAxis.k = "dict" \/ (given.xAxis.k = "list" /\ given.xAxis.v # <<>>)) =>
                  /\ filled.xAxis.k = given.xAxis.k
                  /\ filled.xAxis.v[1].data = Data("cells", FirstColumnTexts(fill_result))
                  /\ Tail(filled.xAxis.v) = Tail(given.xAxis.v)
            /\ given.series.k = "list" =>
                  /\ Len(filled.series.v) = Len(given.series.v)
                  /\ \A i \in DOMAIN given.series.v :
                        i <= Len(fill_result.columns) - 1 =>
                            /\ given.series.v[i].type # "pie" =>
                                  filled.series.v[i].data =
                                      Data("cells", RemainingColumn(fill_result, i))
                            /\ filled.series.v[i].has_name
                            /\ filled.series.v[i].name =
                                  IF given.series.v[i].has_name
                                  THEN given.series.v[i].name
                                  ELSE fill_result.columns[i + 1]

\* The {name, value} pairs of the first and the second column, in row
\* order, without the pairs whose value is None.
ExpectedPairs(result) ==
    SelectSeq([i \in DOMAIN result.rows |->
                  [name |-> str(result.rows[i][1]), value |-> result.rows[i][2]]],
              LAMBDA pair : pair.value # Null)

\* C19: for every result with a remaining column and every option that
\* _fill_echarts_data returns, the data of every series of type pie,
\* whatever its index, is the list of {name, value} pairs of the first
\* column and the first remaining column in row order, without exactly the
\* pairs whose value is null.
C19_PieData ==
    (fill_out.status = "returned" /\ fill_option.series.k = "list"
        /\ Len(fill_result.columns) >= 2) =>
        \A i \in DOMAIN fill_option.series.v :
            fill_option.series.v[i].type = "pie" =>
                fill_out.option.series.v[i].data =
                    Data("pairs", ExpectedPairs(fill_result))

\* C20: handling viz_config never fails a run: a run whose query returned
\* is never left by an exception, and once it is over it has emitted data,
\* chart_type, state{completed} and done.
C20_VizConfigNeverFails ==
    \A r \in Runs :
        exec[r] = "returned" =>
            /\ pc[r] # "raised"
            /\ pc[r] = "end" =>
                  /\ HasEvent(r, "data")
                  /\ HasEvent(r, "chart_type")
                  /\ StateEv("completed") \in Range(events[r])
                  /\ LastEvent(r).event = "done"

JsonScalarTypes == {"null", "bool", "int", "float", "str"}

\* C21: every QueryResult that execute returns has row_count = len(rows),
\* rows of exactly len(columns) cells, one row per row of the driver, and
\* cells that are null, a bool, an integer, a float or a string.
C21_QueryResultWellFormed ==
    execute_out.status = "returned" =>
        LET result == execute_out.result
        IN  /\ result.row_count = Len(result.rows)
            /\ Len(result.rows) = Len(driver_result.rows)
            /\ result.columns = driver_result.columns
            /\ \A i \in DOMAIN result.rows :
                  /\ Len(result.rows[i]) = Len(result.columns)
                  /\ \A j \in DOMAIN result.rows[i] :
                        result.rows[i][j].t \in JsonScalarTypes

C21_CoercedResult ==
    /\ execute_out.status = "returned"
    /\ Len(driver_result.rows) = MaxFillRows
    /\ Len(driver_result.columns) >= 2
    /\ driver_result.rows[1][1] = Null
    /\ driver_result.rows[2][1].t = "Decimal"
    /\ driver_result.rows[2][2].t = "other"
    /\ execute_out.result.rows[2][1].t = "float"
    /\ execute_out.result.rows[2][2].t = "str"

\* C22: once the LLM stream has ended, what generate_stream yields, and
\* run() forwards, is either thinking_full (then sql and the optional
\* items) or one error: PARSE_FAILED whenever the body held no JSON
\* envelope; LLM_ERROR is yielded only when the request or the stream
\* failed, and no error follows thinking_full.
C22_StreamOutcome ==
    \A r \in Runs :
        LET parsed == llm_parsed[r]
            full   == Ev("thought", "full", TRUE) \in Range(events[r])
        IN  /\ HasError(r, "LLM_ERROR") => parsed.kind = "pending"
            /\ parsed.kind \in {"none", "nondict"} =>
                  HasError(r, "PARSE_FAILED") /\ ~full
            /\ parsed.kind = "dict" =>
                  full /\ ~HasError(r, "PARSE_FAILED") /\ ~HasError(r, "LLM_ERROR")

\* C23: a run that is over without having been cancelled has exactly one
\* terminal event, error or done, and it is its last event: a failure in
\* schema retrieval, the LLM stream, validation or execution is emitted as
\* an error event.
C23_OneTerminalEvent ==
    \A r \in Runs :
        pc[r] \in {"end", "raised"} =>
            /\ events[r] # <<>>
            /\ LastEvent(r).event \in {"error", "done"}
            /\ Cardinality({i \in DOMAIN events[r] :
                               events[r][i].event \in {"error", "done"}}) = 1

RetryThought == Ev("thought", "retry", FALSE)

\* The events of run r after its state event sql_validation.
AfterValidationEntry(r) ==
    LET i == CHOOSE k \in DOMAIN events[r] : events[r][k] = StateEv("sql_validation")
    IN  SubSeq(events[r], i + 1, Len(events[r]))

Rejected(r) == validated[r] # <<>> /\ ~validate(sql[r]).ok

\* C24: validation fails fast: on the first rejection by the firewall the
\* run ends with the error event, without another validation attempt and
\* without another event between the rejection and the error.
C24_FailFast ==
    \A r \in Runs :
        Rejected(r) =>
            /\ Len(validated[r]) = 1
            /\ pc[r] = "end"
            /\ AfterValidationEntry(r) = <<ErrorEv(validate(sql[r]).code)>>

\* C24 (amended): after the first rejection the run makes max_retries - 1
\* further attempts on the same SQL, each announced by one thought with
\* done = false, and then ends with the error carrying the firewall's code;
\* no other event comes between the first rejection and that error, and the
\* executor is not called.
C24_RejectionEndsInError ==
    \A r \in Runs :
        Rejected(r) =>
            LET n == Len(validated[r])
            IN  /\ "executor" \notin called[r]
                /\ pc[r] \in {"sql_validation", "end", "cancelled"}
                /\ IF pc[r] = "end"
                   THEN AfterValidationEntry(r) =
                           [k \in 1..(max_retries - 1) |-> RetryThought]
                              \o <<ErrorEv(validate(sql[r]).code)>>
                   ELSE /\ n <= max_retries - 1
                        /\ AfterValidationEntry(r) = [k \in 1..n |-> RetryThought]

C24_RejectedAfterRetries ==
    \E r \in Runs :
        /\ Rejected(r)
        /\ pc[r] = "end"
        /\ Len(validated[r]) = max_retries
        /\ LastEvent(r) = ErrorEv("BLOCKED_STATEMENT")
        /\ events[r][Len(events[r]) - 1] = RetryThought

\* The names of the state events of run r, in order.
StateNames(r) ==
    LET st == SelectSeq(events[r], LAMBDA e : e.event = "state")
    IN  [k \in 1..Len(st) |-> st[k].arg]

IsPrefix(s, t) == Len(s) <= Len(t) /\ s = SubSeq(t, 1, Len(s))

\* The stages after init.
StagesAfterInit == Tail(QueryState)

HasStateEvent(r, name) == StateEv(name) \in Range(events[r])

\* The number of stages after init a run that ended with error code had
\* entered.
StagesEnteredAt(code) ==
    CASE code = "RATE_LIMIT" -> 0
      [] code \in {"LLM_ERROR", "PARSE_FAILED", "NO_SQL"} -> 2
      [] code \in FirewallCodes \cup {"VALIDATION_FAILED"} -> 3
      [] code \in {"QUERY_TIMEOUT", "EXECUTION_ERROR"} -> 4

\* C25: each stage a run enters emits one state event on entry, in the
\* order init, schema_retrieval, llm_generation, sql_validation,
\* sql_execution, result_streaming, completed: a run that has started has
\* entered init, so its state events are a non-empty prefix of that order.
C25_StateEventPerStage ==
    \A r \in Runs :
        pc[r] # "new" =>
            /\ StateNames(r) # <<>>
            /\ IsPrefix(StateNames(r), QueryState)

\* C25 (amended): init emits no state event; each later stage a run enters
\* emits one state event on entry, in the order schema_retrieval,
\* llm_generation, sql_validation, sql_execution, result_streaming,
\* completed, before the work of the stage; a run that fails has the state
\* events of exactly the stages it entered.
C25_StateEventPerLaterStage ==
    \A r \in Runs :
        /\ IsPrefix(StateNames(r), StagesAfterInit)
        /\ "retriever" \in called[r] => HasStateEvent(r, "schema_retrieval")
        /\ "llm" \in called[r] => HasStateEvent(r, "llm_generation")
        /\ "firewall" \in called[r] => HasStateEvent(r, "sql_validation")
        /\ "executor" \in called[r] => HasStateEvent(r, "sql_execution")
        /\ HasEvent(r, "data") => HasStateEvent(r, "result_streaming")
        /\ HasEvent(r, "done") => HasStateEvent(r, "completed")
        /\ (pc[r] = "end" /\ LastEvent(r).event = "error") =>
              Len(StateNames(r)) = StagesEnteredAt(LastEvent(r).arg)

C25_FailedInExecution ==
    \E r \in Runs :
        /\ pc[r] = "end"
        /\ LastEvent(r) = ErrorEv("EXECUTION_ERROR")
        /\ StateNames(r) = SubSeq(StagesAfterInit, 1, 4)
        /\ \E q \in Runs : StateNames(q) = StagesAfterInit

FinalThoughts(r) ==
    {i \in DOMAIN events[r] : events[r][i].event = "thought" /\ events[r][i].done}

\* C26: a run emits at most one thought with done = true; when the LLM
\* completed with an empty sql, that thought carries the thinking text or
\* the default message and error NO_SQL comes right after it.
C26_OneFinalThought ==
    \A r \in Runs :
        /\ Cardinality(FinalThoughts(r)) <= 1
        /\ HasError(r, "NO_SQL") =>
              LET n == Len(events[r])
              IN  /\ n >= 2
                  /\ events[r][n] = ErrorEv("NO_SQL")
                  /\ events[r][n - 1] =
                        Ev("thought",
                           IF full_thinking[r] # "" THEN "full" ELSE "default", TRUE)

\* C27: a run that is closed or cancelled at a suspension point emits no
\* event from then on: the step that cancels it adds no event, no later
\* step moves it or adds one, and a run cancelled while it waited for the
\* executor still ends its stream with the state event sql_execution (no
\* EXECUTION_ERROR, no QUERY_TIMEOUT, no data).
C27_CancelIsSilent ==
    [][\A r \in Runs :
          /\ pc'[r] = "cancelled" => events'[r] = events[r]
          /\ pc[r] = "cancelled" => pc'[r] = "cancelled"
          /\ (pc'[r] = "cancelled" /\ exec'[r] = "cancelled") =>
                /\ LastEvent(r) = StateEv("sql_execution")
                /\ deadline'[r] # "fired"]_vars

C27_CancelledWhileExecuting ==
    \E r, q \in Runs :
        /\ pc[r] = "cancelled"
        /\ exec[r] = "cancelled"
        /\ LastEvent(r) = StateEv("sql_execution")
        /\ pc[q] = "cancelled"
        /\ events[q] # <<>>
        /\ LastEvent(q).event = "data"

RetryThoughts(r) == {i \in DOMAIN events[r] : events[r][i] = RetryThought}

\* C28: the validation loop calls validate at most max_retries times, each
\* time on the SQL text of the LLM; a failed attempt that is not the last
\* emits one retry thought; a run the firewall rejected has called validate
\* exactly max_retries times when it ends, and ends with a single error
\* event, whose code is the firewall's.
C28_RetriesBounded ==
    \A r \in Runs :
        LET n == Len(validated[r])
        IN  /\ n <= max_retries
            /\ \A i \in 1..n : validated[r][i] = sql[r]
            /\ Cardinality(RetryThoughts(r)) =
                  IF Rejected(r) THEN Min(n, max_retries - 1) ELSE 0
            /\ (Rejected(r) /\ pc[r] = "end") =>
                  /\ n = max_retries
                  /\ LastEvent(r) = ErrorEv(validate(sql[r]).code)
                  /\ Cardinality({i \in DOMAIN events[r] :
                                     events[r][i].event = "error"}) = 1

C28_ThreeIdenticalAttempts ==
    \E r \in Runs :
        /\ pc[r] = "end"
        /\ validated[r] = [k \in 1..max_retries |-> DeleteSql]
        /\ Cardinality(RetryThoughts(r)) = max_retries - 1
        /\ HasError(r, "BLOCKED_STATEMENT")

\* The admitted calls of client c on limiter lim in the history h that the
\* last call of c on lim has not seen expire.
StillCounted(h, lim, c) ==
    LET mine == {i \in DOMAIN h : h[i].lim = lim /\ h[i].client = c}
        last == CHOOSE i \in mine : \A j \in mine : j <= i
    IN  {i \in mine : h[i].admitted /\ h[i].t > h[last].t - WINDOW}

\* C29: the timestamp lists change only in a step that calls
\* check_rate_limit, and only the list of the calling client: an admitted
\* call leaves the unexpired timestamps with the time of the call appended,
\* a refused call leaves the unexpired timestamps alone; no later step of a
\* run, however it ends, changes a list, so that every admitted call is
\* counted until a later call finds it expired.
C29_MapChangesAtAdmission ==
    [][\A lim \in LimiterIds : \A c \in Clients :
          LET old == _request_timestamps[lim][c]
              new == _request_timestamps'[lim][c]
              n   == Len(calls')
          IN  /\ IF /\ n = Len(calls) + 1
                    /\ calls'[n].lim = lim
                    /\ calls'[n].client = c
                 THEN new = IF calls'[n].admitted
                            THEN Append(Trim(old, clock), clock)
                            ELSE Trim(old, clock)
                 ELSE new = old
              /\ (\E i \in DOMAIN calls' : calls'[i].lim = lim /\ calls'[i].client = c)
                    => Len(new) = Cardinality(StillCounted(calls', lim, c))]_vars

C29_CountedAfterFailure ==
    \E i, j \in DOMAIN calls :
        /\ i < j
        /\ calls[i].admitted /\ calls[j].admitted
        /\ calls[i].t < calls[j].t
        /\ calls[j].t < calls[i].t + WINDOW
        /\ pc[calls[i].run] = "end"
        /\ HasError(calls[i].run, "NO_SQL")
        /\ pc[calls[j].run] = "end"
        /\ HasError(calls[j].run, "QUERY_TIMEOUT")
        /\ _request_timestamps[0]["default"] = <<calls[i].t, calls[j].t>>

\* C30: when the driver raises before the deadline fires, whatever it
\* raises, the run ends with error EXECUTION_ERROR; error QUERY_TIMEOUT is
\* emitted only when the deadline of the limiter fired.
C30_TimeoutOnlyFromDeadline ==
    \A r \in Runs :
        /\ exec[r] = "raised" =>
              /\ pc[r] = "end"
              /\ LastEvent(r) = ErrorEv("EXECUTION_ERROR")
        /\ HasError(r, "QUERY_TIMEOUT") => deadline[r] = "fired"

\* The three extractions of a body, in the order of the policy: what each
\* gives when it is tried alone.
Extractions(content) ==
    <<json_loads(content),
      IF re_search(content).found THEN json_loads(re_search(content).group) ELSE JsonFail,
      IF BraceBlock(content).found THEN json_loads(BraceBlock(content).group) ELSE JsonFail>>

Parsing(content) == {i \in 1..3 : Extractions(content)[i].ok}

\* C31: _parse_response returns the value of the first of the three
\* extractions (whole body, first fenced block, first '{' to last '}')
\* that parses, and returns nothing only if all three fail.
C31_FirstExtractionWins ==
    parse_out.called =>
        /\ Parsing(body) # {} =>
              parse_out.value = Extractions(body)[Least(Parsing(body))].value
        /\ parse_out.value = None => Parsing(body) = {}

\* C31 (amended): _parse_response returns the value of the first of the
\* three extractions that parses; it returns nothing only if all three
\* fail or the first that parses is the JSON value null.
C31_FirstExtractionWinsOrNull ==
    parse_out.called =>
        /\ Parsing(body) # {} =>
              parse_out.value = Extractions(body)[Least(Parsing(body))].value
        /\ parse_out.value = None =>
              \/ Parsing(body) = {}
              \/ Extractions(body)[Least(Parsing(body))].value = <<"null">>

C31_FenceBeforeBrace ==
    /\ parse_out.called
    /\ Parsing(body) = {2, 3}
    /\ Extractions(body)[2].value # Extractions(body)[3].value
    /\ parse_out.value = <<"num">>

\* C32: the code validate raises is that of the earliest policy step the
\* whole input violates: EMPTY_SQL, then PARSE_ERROR, then the statement
\* class of any top-level statement (BLOCKED_STATEMENT or NON_SELECT), then
\* BLOCKED_SUBQUERY in any statement, then BLOCKED_FUNCTION, also when an
\* earlier statement of a list violates a later step than a later one.
C32_EarliestPolicyStep ==
    fw_result # NotCalled =>
        LET stmts == Range(Kept(fw_sql))
            code  == IF fw_result.ok THEN "OK" ELSE fw_result.code
        IN  CASE fw_sql.kind \in {"empty", "blank"} -> code = "EMPTY_SQL"
              [] fw_sql.kind = "garbage" -> code = "PARSE_ERROR"
              [] OTHER ->
                   IF \E s \in stmts : s.type # "Select"
                   THEN \E s \in stmts : s.type # "Select" /\ code = CheckStatement(s)
                   ELSE IF \E s \in stmts : _check_dangerous_nodes(s) = "BLOCKED_SUBQUERY"
                        THEN code = "BLOCKED_SUBQUERY"
                        ELSE IF \E s \in stmts : _check_dangerous_nodes(s) = "BLOCKED_FUNCTION"
                             THEN code = "BLOCKED_FUNCTION"
                             ELSE code = "OK"

\* The contents of the thought events with done = false of run r, in order.
ThoughtDeltas(r) ==
    LET th == SelectSeq(events[r], LAMBDA e : e.event = "thought" /\ ~e.done)
    IN  [k \in 1..Len(th) |-> th[k].arg]

C35_RetrievalToleratesRebuild ==
    \A r \in Runs :
        LET c == schema_context[r]
        IN  c.status # "none" =>
                /\ c.status # "gone"
                /\ c.count >= 0
                /\ c.asked <= Min(top_k, c.count)
                /\ c.count = 0 => c.status = "returned" /\ c.text = ""

\* What run r holds on its own: its position, its events, its locals, the
\* collaborator responses it got and its histories.
RunLocals(r) ==
    <<pc[r], events[r], client_id[r], llm_parsed[r], full_thinking[r], sql[r],
      viz_config[r], chart_type[r], attempt[r], safe_sql[r], exec[r],
      deadline[r], called[r], executed[r], validated[r], collection[r],
      schema_context[r], llm_stream[r], pulled[r], full_content[r]>>

\* C36: interleaved runs of one state machine share nothing they write but
\* the limiter's timestamp map: a step that changes what a run holds is a
\* step of that run's own code, it changes nothing any other run holds,
\* and nothing else that is shared (the firewall, the vector store, the
\* cap) changes; so each run emits what it emits alone, given its
\* admission and the responses it gets.
C36_RunsIndependent ==
    [][\A r \in Runs :
          RunLocals(r)' # RunLocals(r) =>
              /\ StartRun(r) \/ RunStep(r)
              /\ \A q \in Runs \ {r} : RunLocals(q)' = RunLocals(q)
              /\ UNCHANGED <<cfgvars, fwvars, fillvars, exevars, parsevars, max_rpm, clock,
                             chroma, refresh, refreshed>>
              /\ _request_timestamps' # _request_timestamps => pc[r] = "new"]_vars

C36_BothInFlight ==
    \E r, q \in Runs :
        /\ sql[r] = SelectSql
        /\ pc[r] = "executing"
        /\ sql[q] = DeleteSql
        /\ pc[q] = "sql_validation"
        /\ attempt[q] = 1

\* C37: a call check_rate_limit(c) leaves the timestamp list of every other
\* client id as it was, and whether it is admitted depends on c's own list
\* alone: it is admitted exactly when fewer than max_rpm timestamps of c's
\* list are newer than now - 60, whatever the other clients called.
C37_ClientsIndependent ==
    [][Len(calls') = Len(calls) + 1 =>
          LET call == calls'[Len(calls')]
              c    == call.client
              lim  == call.lim
          IN  /\ \A d \in Clients \ {c} :
                    _request_timestamps'[lim][d] = _request_timestamps[lim][d]
              /\ \A l \in LimiterIds \ {lim} :
                    _request_timestamps'[l] = _request_timestamps[l]
              /\ call.admitted <=>
                    Len(Trim(_request_timestamps[lim][c], clock)) < max_rpm[lim]]_vars

C37_OtherClientAdmitted ==
    \E i, j \in DOMAIN calls :
        /\ i < j
        /\ calls[i].client = "default" /\ ~calls[i].admitted
        /\ calls[j].client = "other" /\ calls[j].admitted
        /\ calls[j].t = calls[i].t
        /\ Len(_request_timestamps[0]["default"]) = max_rpm[0]

\* C38: a refusal does not prolong itself: the lists hold the times of
\* admitted calls only, and a call is admitted as soon as fewer than
\* max_rpm of the client's earlier admitted calls are less than 60 seconds
\* old, however many calls were refused in between.
C38_NoLockout ==
    /\ \A lim \in LimiterIds : \A c \in Clients :
          \A k \in DOMAIN _request_timestamps[lim][c] :
             \E i \in DOMAIN calls :
                /\ calls[i].lim = lim /\ calls[i].client = c /\ calls[i].admitted
                /\ calls[i].t = _request_timestamps[lim][c][k]
    /\ \A i \in DOMAIN calls :
          Cardinality(CountedBy(i)) < max_rpm[calls[i].lim] => calls[i].admitted

C38_AdmittedAfterRefusals ==
    \E i, j, k \in DOMAIN calls :
        /\ i < j /\ j < k
        /\ calls[i].client = calls[j].client /\ calls[j].client = calls[k].client
        /\ calls[i].admitted
        /\ ~calls[j].admitted /\ calls[j].t > calls[i].t
        /\ calls[k].admitted /\ calls[k].t = calls[i].t + WINDOW
        /\ \A m \in DOMAIN calls : m < k /\ calls[m].client = calls[k].client /\ calls[m].admitted
              => calls[m].t = calls[i].t

\* The last schema_refresh that returned did not build the index.
RefreshFailed ==
    /\ refreshed # <<>>
    /\ refreshed[Len(refreshed)] \in {"error", "warning"}

\* C39: schema_refresh empties the index before it extracts, a refresh
\* that fails or finds no table leaves it empty, and every retrieval from
\* then until the next successful build gives the empty context.
C39_FailedRefreshLeavesEmptyIndex ==
    [][/\ refresh = "extracting" => chroma.count = 0
       /\ RefreshFailed =>
             /\ chroma.count = 0
             /\ \A r \in Runs :
                   schema_context'[r] # schema_context[r]
                      => schema_context'[r] = Context("returned", "", 0, 0)]_vars

\* C40: error{VALIDATION_FAILED} comes only from a validation loop that
\* did not run (max_retries of zero or less) or whose validate returned the
\* empty string; the run then ends without a sql event and without a call
\* of the executor.  A run whose last attempt was rejected ends with the
\* error code of the firewall.
C40_ValidationFailedOnlyWithoutSafeSql ==
    \A r \in Runs :
        /\ HasError(r, "VALIDATION_FAILED") =>
              /\ \/ max_retries <= 0 /\ validated[r] = <<>> /\ safe_sql[r] = NoSafeSql
                 \/ /\ max_retries > 0 /\ validated[r] # <<>>
                    /\ validate(sql[r]).ok /\ validate(sql[r]).stmts = <<>>
                    /\ safe_sql[r] = [valid |-> TRUE, stmts |-> <<>>]
              /\ pc[r] = "end"
              /\ LastEvent(r) = ErrorEv("VALIDATION_FAILED")
              /\ ~HasEvent(r, "sql")
              /\ "executor" \notin called[r]
              /\ executed[r] = <<>>
        /\ Rejected(r) /\ Len(validated[r]) = max_retries =>
              /\ pc[r] = "end"
              /\ LastEvent(r) = ErrorEv(validate(sql[r]).code)
              /\ ~HasError(r, "VALIDATION_FAILED")

C40_FailedWithoutValidation ==
    \E r \in Runs :
        /\ max_retries <= 0
        /\ sql[r] = DeleteSql
        /\ pc[r] = "end"
        /\ LastEvent(r) = ErrorEv("VALIDATION_FAILED")
        /\ "firewall" \notin called[r]

====
